---- MODULE Spec2Model ----
(***************************************************************************)
(* git_syncer: commit-level synchronisation between a private and a public *)
(* monorepo (tooling/git_syncer).  The model follows syncer.py, git_ops.py *)
(* and config.py.  Strings are sequences of one-character strings, commit  *)
(* hashes are the indices of the commit objects, and a commit message is a *)
(* sequence of tokens.                                                     *)
(***************************************************************************)
EXTENDS Integers, Sequences, FiniteSets, TLC

\* ------------------------------------------------------------------------
\* Bounds of the model
\* ------------------------------------------------------------------------
\* developer commits plus sync invocations in one behaviour
MaxEvents == 4

\* file changes of a commit handed to filter_commit_files on its own
MaxChanges == 2

\* commits of a history beyond the window of the provenance scan
MaxBeyond == 1

\* ------------------------------------------------------------------------
\* Strings (str): sequences of characters
\* ------------------------------------------------------------------------
SLASH == "/"

\* str.startswith
StartsWith(s, p) ==
    /\ Len(p) <= Len(s)
    /\ SubSeq(s, 1, Len(p)) = p

\* s[n:]
DropFirst(s, n) == SubSeq(s, n + 1, Len(s))

\* str.rstrip("/")
RECURSIVE rstrip_slash(_)
rstrip_slash(s) ==
    IF s # <<>> /\ s[Len(s)] = SLASH
    THEN rstrip_slash(SubSeq(s, 1, Len(s) - 1))
    ELSE s

\* pathlib.Path(file_path).parts of a relative path: the non-empty segments
RECURSIVE PathPartsFrom(_, _, _)
PathPartsFrom(s, i, cur) ==
    IF i > Len(s)
    THEN IF cur = <<>> THEN <<>> ELSE <<cur>>
    ELSE IF s[i] = SLASH
         THEN (IF cur = <<>> THEN <<>> ELSE <<cur>>) \o PathPartsFrom(s, i + 1, <<>>)
         ELSE PathPartsFrom(s, i + 1, Append(cur, s[i]))

PathParts(s) == PathPartsFrom(s, 1, <<>>)

\* fnmatch.fnmatch(name, pat): shell-glob match of the whole name;
\* '*' matches any run of characters ('/' included), '?' one character.
RECURSIVE fnmatch_from(_, _, _, _)
fnmatch_from(name, i, pat, j) ==
    IF j > Len(pat)
    THEN i > Len(name)
    ELSE IF pat[j] = "*"
         THEN \/ fnmatch_from(name, i, pat, j + 1)
              \/ (i <= Len(name) /\ fnmatch_from(name, i + 1, pat, j))
         ELSE /\ i <= Len(name)
              /\ (pat[j] = "?" \/ pat[j] = name[i])
              /\ fnmatch_from(name, i + 1, pat, j + 1)

fnmatch(name, pat) == fnmatch_from(name, 1, pat, 1)

\* ------------------------------------------------------------------------
\* config.py
\* ------------------------------------------------------------------------
NoPath == <<>>

\* ProjectMapping.resolved_public_path
resolved_public_path(project) ==
    IF project.public_path # NoPath THEN project.public_path ELSE project.private_path

\* SyncConfig.global_exclude_patterns (default)
global_exclude_patterns ==
    << <<".", "e", "n", "v">>,
       <<".", "e", "n", "v", ".", "*">>,
       <<"*", ".", "s", "e", "c", "r", "e", "t">>,
       <<"*", ".", "s", "e", "c", "r", "e", "t", "s">>,
       <<".", "s", "e", "c", "r", "e", "t", "s", "/">>,
       <<"_", "_", "p", "y", "c", "a", "c", "h", "e", "_", "_", "/">>,
       <<"*", ".", "p", "y", "c">>,
       <<".", "g", "i", "t", "/">>,
       <<"n", "o", "d", "e", "_", "m", "o", "d", "u", "l", "e", "s", "/">>,
       <<".", "n", "x", "/">> >>

\* faulty variant: the enabled flag is not looked at
get_enabled_projects_all(cfg) == cfg.projects

\* SyncConfig.get_enabled_projects
get_enabled_projects(cfg) == SelectSeq(cfg.projects, LAMBDA p : p.enabled)

\* ------------------------------------------------------------------------
\* git_ops.py: path filter and change classifier
\* ------------------------------------------------------------------------
\* one exclude pattern of the global list: the full path and every path part,
\* against the pattern and the pattern without its trailing '/'
GlobalExcludes(file_path, file_parts, pattern) ==
    LET clean_pattern == rstrip_slash(pattern)
    IN \/ fnmatch(file_path, pattern)
       \/ fnmatch(file_path, clean_pattern)
       \/ \E k \in 1..Len(file_parts) :
             \/ fnmatch(file_parts[k], pattern)
             \/ fnmatch(file_parts[k], clean_pattern)

\* one exclude pattern of the project: the path parts are matched against
\* the cleaned pattern only
ProjectExcludes(file_path, file_parts, pattern) ==
    LET clean_pattern == rstrip_slash(pattern)
    IN \/ fnmatch(file_path, pattern)
       \/ fnmatch(file_path, clean_pattern)
       \/ \E k \in 1..Len(file_parts) : fnmatch(file_parts[k], clean_pattern)

\* faulty variant: a file that matches an include pattern is included
\* whatever the exclude patterns say
should_include_file_include_first(file_path, project, cfg) ==
    \/ \E n \in 1..Len(project.include_patterns) :
          fnmatch(file_path, project.include_patterns[n])
    \/ /\ project.include_patterns = <<>>
       /\ ~\E g \in 1..Len(cfg.global_exclude_patterns) :
             GlobalExcludes(file_path, PathParts(file_path),
                            cfg.global_exclude_patterns[g])
       /\ ~\E e \in 1..Len(project.exclude_patterns) :
             ProjectExcludes(file_path, PathParts(file_path),
                             project.exclude_patterns[e])

\* faulty variant: the include patterns are not consulted
should_include_file_no_include(file_path, project, cfg) ==
    /\ ~\E g \in 1..Len(cfg.global_exclude_patterns) :
          GlobalExcludes(file_path, PathParts(file_path),
                         cfg.global_exclude_patterns[g])
    /\ ~\E e \in 1..Len(project.exclude_patterns) :
          ProjectExcludes(file_path, PathParts(file_path),
                          project.exclude_patterns[e])

should_include_file(file_path, project, cfg) ==
    LET file_parts == PathParts(file_path)
    IN IF \E g \in 1..Len(cfg.global_exclude_patterns) :
             GlobalExcludes(file_path, file_parts, cfg.global_exclude_patterns[g])
       THEN FALSE
       ELSE IF \E e \in 1..Len(project.exclude_patterns) :
                  ProjectExcludes(file_path, file_parts, project.exclude_patterns[e])
            THEN FALSE
            ELSE IF project.include_patterns # <<>>
                 THEN \E n \in 1..Len(project.include_patterns) :
                         fnmatch(file_path, project.include_patterns[n])
                 ELSE TRUE

\* project.private_path.rstrip("/") + "/"
project_prefix(project) == rstrip_slash(project.private_path) \o <<SLASH>>

\* faulty variant: the prefix is the source path without the '/' after it
filter_commit_files_bare_prefix(files_changed, project, cfg) ==
    SelectSeq(files_changed,
              LAMBDA change :
                  /\ StartsWith(change.path, rstrip_slash(project.private_path))
                  /\ should_include_file(
                         DropFirst(change.path,
                                   Len(rstrip_slash(project.private_path))),
                         project, cfg))

\* faulty variant: every change under the prefix is relevant, the patterns
\* are not consulted
filter_commit_files_unfiltered(files_changed, project, cfg) ==
    SelectSeq(files_changed,
              LAMBDA change : StartsWith(change.path, project_prefix(project)))

filter_commit_files(files_changed, project, cfg) ==
    SelectSeq(files_changed,
              LAMBDA change :
                  /\ StartsWith(change.path, project_prefix(project))
                  /\ should_include_file(
                         DropFirst(change.path, Len(project_prefix(project))),
                         project, cfg))

\* ------------------------------------------------------------------------
\* Paths, trees and commit messages
\* ------------------------------------------------------------------------
P_ENV == <<"p", "/", ".", "e", "n", "v">>
P_A == <<"p", "/", "a">>
Q_ENV == <<"q", "/", ".", "e", "n", "v">>
Q_A == <<"q", "/", "a">>
P_B == <<"p", "/", "b">>
Q_B == <<"q", "/", "b">>

\* every path of the model, in git's (byte) order
AllPaths == <<P_ENV, P_A, P_B, Q_ENV, Q_A, Q_B>>

PathSet == {AllPaths[k] : k \in 1..Len(AllPaths)}

\* file contents (blobs)
Contents == {1, 2}

\* a tree (also an index or a working tree): the files present, with content
EmptyTree == [p \in {} |-> 1]

TreeWrite(t, path, content) ==
    [p \in DOMAIN t \cup {path} |-> IF p = path THEN content ELSE t[p]]

TreeRemove(t, path) == [p \in DOMAIN t \ {path} |-> t[p]]

\* message tokens; a trailer token stands for 'synced_from: <40-hex hash h>'
Tok(kind, h) == [k |-> kind, h |-> h]
TXT == Tok("txt", 0)
SP == Tok("sp", 0)
BLANK == Tok("blank", 0)
SYNC_PREFIX == Tok("prefix", 0)
\* the words 'nothing to commit' in any case, as part of a message
NTC == Tok("ntc", 0)
SyncedFrom(h) == Tok("sf", h)

IsSpace(tok) == tok.k \in {"sp", "blank"}

\* str.strip() of a message
RECURSIVE strip(_)
strip(m) ==
    IF m = <<>> THEN m
    ELSE IF IsSpace(m[1]) THEN strip(Tail(m))
    ELSE IF IsSpace(m[Len(m)]) THEN strip(SubSeq(m, 1, Len(m) - 1))
    ELSE m

\* commit_prefix in message
Contains(m, tok) == \E k \in 1..Len(m) : m[k] = tok

\* re.search(r"synced_from:\s*([a-f0-9]{40})", message): the first match,
\* 0 when there is none
RECURSIVE re_search_synced_from(_)
re_search_synced_from(m) ==
    IF m = <<>> THEN 0
    ELSE IF m[1].k = "sf" THEN m[1].h
    ELSE re_search_synced_from(Tail(m))

\* ------------------------------------------------------------------------
\* State
\* ------------------------------------------------------------------------
VARIABLES
    objects,    \* commit objects; a commit's hash is its index
    repos,      \* the two local repositories: head, index, working tree
    origin,     \* head of the public remote's branch
    config,     \* SyncConfig
    pc,         \* position of the current sync() invocation
    run,        \* locals of the current / last sync() invocation
    prev,       \* summary of the invocation that returned before this one
    events,     \* developer commits and sync() invocations so far
    probe       \* arguments and result of a call of the path filter

vars == <<objects, repos, origin, config, pc, run, prev, events, probe>>

PRIVATE == "private"
PUBLIC == "public"
P2P == "private-to-public"
PUB2PRIV == "public-to-private"

DRY_RUN == -1

\* an author or committer identity; a name or an email can be empty
Ident(name, email) == [name |-> name, email |-> email]

\* user.name and user.email of the user who invokes the syncer
INVOKER == Ident("syncer", "syncer@host")

\* a timestamp: seconds since the epoch and the offset of the time zone
Stamp(t, tz) == [t |-> t, tz |-> tz]

\* author_date = None
NoDate == Stamp(-1, 0)

\* the clock when a commit is created: it advances with every commit
Now(objs) == Stamp(Len(objs) + 1, 0)

Tree(objs, h) == IF h = 0 THEN EmptyTree ELSE objs[h].tree

\* commits reachable from h, newest first (repo.iter_commits(rev))
RECURSIVE Chain(_, _)
Chain(objs, h) ==
    IF h = 0 THEN <<>> ELSE <<h>> \o Chain(objs, objs[h].parent)

SeqSet(s) == {s[k] : k \in 1..Len(s)}

RECURSIVE Reverse(_)
Reverse(s) == IF s = <<>> THEN <<>> ELSE Append(Reverse(Tail(s)), s[1])

\* ------------------------------------------------------------------------
\* git_ops.py: FileChange, CommitInfo
\* ------------------------------------------------------------------------
\* old_path = NoPath stands for None
FileChange(path, change_type) ==
    [path |-> path, change_type |-> change_type, old_path |-> NoPath]

\* lines 129-136: a rename carries the path before it
Renamed(path, old_path) ==
    [path |-> path, change_type |-> "R", old_path |-> old_path]

\* a.diff(b) between two trees, in path order
DiffKind(a, b, p) ==
    IF p \notin DOMAIN a THEN "A" ELSE IF p \notin DOMAIN b THEN "D" ELSE "M"

Differs(a, b, p) ==
    \/ (p \in DOMAIN a) # (p \in DOMAIN b)
    \/ (p \in DOMAIN a /\ p \in DOMAIN b /\ a[p] # b[p])

\* the rename detection of the diff (-M): a path that is gone and a path
\* that is new with the same content are one rename, <<old, new>>; the
\* pairs with one candidate on either side are taken
RenamePairs(a, b) ==
    LET gone == DOMAIN a \ DOMAIN b
        new == DOMAIN b \ DOMAIN a
    IN {pair \in gone \X new :
           /\ a[pair[1]] = b[pair[2]]
           /\ \A o \in gone : a[o] = b[pair[2]] => o = pair[1]
           /\ \A n \in new : b[n] = a[pair[1]] => n = pair[2]}

\* one entry of the diff: nothing for the old path of a rename, the rename
\* at its new path
DiffEntry(a, b, renames, p) ==
    IF \E pair \in renames : pair[1] = p THEN <<>>
    ELSE IF \E pair \in renames : pair[2] = p
    THEN <<Renamed(p, (CHOOSE pair \in renames : pair[2] = p)[1])>>
    ELSE IF Differs(a, b, p) THEN <<FileChange(p, DiffKind(a, b, p))>>
    ELSE <<>>

RECURSIVE DiffFrom(_, _, _, _)
DiffFrom(a, b, renames, k) ==
    IF k > Len(AllPaths) THEN <<>>
    ELSE DiffEntry(a, b, renames, AllPaths[k]) \o DiffFrom(a, b, renames, k + 1)

DiffTrees(a, b) == DiffFrom(a, b, RenamePairs(a, b), 1)

\* commit.diff(None): the commit against the working tree (tracked files)
DiffWorktree(tree, index, wt) ==
    DiffTrees(tree, [p \in {q \in DOMAIN wt : q \in DOMAIN index \/ q \in DOMAIN tree}
                        |-> wt[p]])

\* CommitInfo.from_commit(commit).files_changed
files_changed(objs, rp, h) ==
    IF objs[h].parent # 0
    THEN DiffTrees(Tree(objs, objs[h].parent), objs[h].tree)
    ELSE DiffWorktree(objs[h].tree, rp[objs[h].home].index, rp[objs[h].home].wt)

\* CommitInfo.from_commit(commit): message and authorship; the authored
\* time is converted to UTC
from_commit(objs, h) ==
    [hash |-> h,
     message |-> strip(objs[h].message),
     author_name |-> objs[h].author.name,
     author_email |-> objs[h].author.email,
     author_date |-> Stamp(objs[h].date.t, 0)]

\* ------------------------------------------------------------------------
\* git_ops.py: GitRepository
\* ------------------------------------------------------------------------
\* max_count of the provenance scan
LOOKBACK == 100

\* GitRepository.get_last_synced_commit: 0 stands for None
RECURSIVE scan_synced_from(_, _, _, _)
scan_synced_from(objs, h, left, commit_prefix) ==
    IF h = 0 \/ left = 0 THEN 0
    ELSE IF /\ Contains(objs[h].message, commit_prefix)
            /\ re_search_synced_from(objs[h].message) # 0
         THEN re_search_synced_from(objs[h].message)
         ELSE scan_synced_from(objs, objs[h].parent, left - 1, commit_prefix)

\* faulty variant: the scan has no max_count
get_last_synced_commit_unbounded(objs, repo, commit_prefix) ==
    scan_synced_from(objs, repo.head, Len(objs), commit_prefix)

get_last_synced_commit(objs, repo, commit_prefix) ==
    scan_synced_from(objs, repo.head, LOOKBACK, commit_prefix)

\* a revision resolves in a repository when the object is in its store
Resolves(objs, name, h) == h \in 1..Len(objs) /\ objs[h].home = name

\* a pathspec matches the file itself or anything below the directory
ChangedUnder(a, b, base) ==
    \E p \in DOMAIN a \cup DOMAIN b :
        /\ \/ p = base
           \/ StartsWith(p, Append(base, SLASH))
        /\ Differs(a, b, p)

\* git's path limiting: the commit changes a file at or under a pathspec
\* (paths = <<>> stands for None: no limiting)
TouchesPaths(objs, h, paths) ==
    \/ paths = <<>>
    \/ \E k \in 1..Len(paths) :
          ChangedUnder(Tree(objs, objs[h].parent), objs[h].tree,
                       rstrip_slash(paths[k]))

\* faulty variant: the resume point is not excluded, the rev range is the
\* whole branch
get_commits_since_whole_branch(objs, name, repo, since_commit, paths) ==
    Reverse(SelectSeq(Chain(objs, repo.head),
                      LAMBDA h : TouchesPaths(objs, h, paths)))

\* faulty variant: the list is not reversed, newest first
get_commits_since_newest_first(objs, name, repo, since_commit, paths) ==
    SelectSeq(Chain(objs, repo.head),
              LAMBDA h : /\ ~(/\ since_commit # 0
                              /\ Resolves(objs, name, since_commit)
                              /\ h \in SeqSet(Chain(objs, since_commit)))
                         /\ TouchesPaths(objs, h, paths))

\* faulty variant: nothing is returned when since_commit does not resolve
get_commits_since_known_only(objs, name, repo, since_commit, paths) ==
    IF since_commit # 0 /\ ~Resolves(objs, name, since_commit)
    THEN <<>>
    ELSE Reverse(SelectSeq(Chain(objs, repo.head),
                           LAMBDA h :
                               /\ h \notin SeqSet(Chain(objs, since_commit))
                               /\ TouchesPaths(objs, h, paths)))

\* GitRepository.get_commits_since: the hashes, oldest first
get_commits_since(objs, name, repo, since_commit, paths) ==
    LET all == Chain(objs, repo.head)
        excluded == IF since_commit # 0 /\ Resolves(objs, name, since_commit)
                    THEN SeqSet(Chain(objs, since_commit))
                    ELSE {}
        commits == SelectSeq(all, LAMBDA h : h \notin excluded
                                             /\ TouchesPaths(objs, h, paths))
    IN Reverse(commits)

\* faulty variant: the file is read from the working tree of the source
get_file_content_at_commit_worktree(objs, h, file_path) ==
    IF file_path \in DOMAIN repos[objs[h].home].wt
    THEN repos[objs[h].home].wt[file_path] ELSE 0

\* GitRepository.get_file_content_at_commit: 0 stands for None
get_file_content_at_commit(objs, h, file_path) ==
    IF file_path \in DOMAIN objs[h].tree THEN objs[h].tree[file_path] ELSE 0

\* git reset --hard <target>: tracked files follow the target, untracked stay
ResetHard(repo, target, tree) ==
    [head |-> target,
     index |-> tree,
     wt |-> [p \in {q \in DOMAIN repo.wt \cup DOMAIN tree :
                       q \in DOMAIN tree \/ q \notin DOMAIN repo.index}
               |-> IF p \in DOMAIN tree THEN tree[p] ELSE repo.wt[p]]]

\* clone_repo on the existing clone of the public repository
clone_repo(objs, repo, remote_head, force_reclone) ==
    IF force_reclone
    THEN [head |-> remote_head, index |-> Tree(objs, remote_head),
          wt |-> Tree(objs, remote_head)]
    ELSE ResetHard(repo, remote_head, Tree(objs, remote_head))

\* GitRepository.stage_files: git add
stage_files(repo, file_paths) ==
    [repo EXCEPT !.index =
        [p \in DOMAIN repo.index \cup SeqSet(file_paths) |->
            IF p \in SeqSet(file_paths) THEN repo.wt[p] ELSE repo.index[p]]]

\* GitRepository.remove_file: unlink and git rm --cached --ignore-unmatch
remove_file(repo, file_path) ==
    [repo EXCEPT !.wt = TreeRemove(repo.wt, file_path),
                 !.index = TreeRemove(repo.index, file_path)]

RECURSIVE remove_files(_, _)
remove_files(repo, file_paths) ==
    IF file_paths = <<>> THEN repo
    ELSE remove_files(remove_file(repo, file_paths[1]), Tail(file_paths))

\* GitRepository.commit: git commit of the index on top of HEAD; it fails
\* when the index equals HEAD's tree
NothingStaged(objs, repo) == repo.index = Tree(objs, repo.head)

\* git's message is then 'nothing to commit' only when the working tree is
\* clean; it is 'no changes added to commit' or 'nothing added to commit but
\* untracked files present' otherwise
WorkingTreeClean(repo) == repo.wt = repo.index

\* --author is passed when name and email are both non-empty, --date when a
\* date is given; git takes the invoking user and the clock otherwise
commit(objs, name, repo, message, author_name, author_email, author_date) ==
    [objs |-> Append(objs,
                 [parent |-> repo.head, message |-> message,
                  tree |-> repo.index, home |-> name,
                  author |-> IF author_name # "" /\ author_email # ""
                             THEN Ident(author_name, author_email)
                             ELSE INVOKER,
                  date |-> IF author_date # NoDate THEN author_date
                           ELSE Now(objs)]),
     repo |-> [repo EXCEPT !.head = Len(objs) + 1]]

\* sync_file_deletion: unlinks the destination file when it exists;
\* deleted = NoPath stands for None
sync_file_deletion(repo, file_path, project) ==
    LET private_prefix == project_prefix(project)
        rel_path == DropFirst(file_path, Len(private_prefix))
        public_file == resolved_public_path(project) \o <<SLASH>> \o rel_path
    IN IF ~StartsWith(file_path, private_prefix)
       THEN [repo |-> repo, deleted |-> NoPath]
       ELSE IF public_file \in DOMAIN repo.wt
            THEN [repo |-> [repo EXCEPT !.wt = TreeRemove(repo.wt, public_file)],
                  deleted |-> public_file]
            ELSE [repo |-> repo, deleted |-> NoPath]

\* ------------------------------------------------------------------------
\* syncer.py: RepoSyncer._sync_single_commit
\* ------------------------------------------------------------------------
\* the changes the two loops of _sync_single_commit visit, in order
ItemsOf(kind, mapping, changes) ==
    [k \in 1..Len(changes) |->
        [kind |-> kind, mapping |-> mapping, change |-> changes[k]]]

RECURSIVE ProjectItems(_, _, _)
ProjectItems(cfg, projects, changes) ==
    IF projects = <<>> THEN <<>>
    ELSE ItemsOf("project", projects[1],
                 filter_commit_files(changes, projects[1], cfg))
            \o ProjectItems(cfg, Tail(projects), changes)

\* faulty variant: the global exclude patterns are applied to mapped files
RECURSIVE FileItems_filtered(_, _)
FileItems_filtered(files, changes) ==
    IF files = <<>> THEN <<>>
    ELSE ItemsOf("file", files[1],
                 SelectSeq(changes,
                           LAMBDA c :
                               /\ c.path = files[1].private_path
                               /\ ~\E g \in 1..Len(global_exclude_patterns) :
                                     GlobalExcludes(c.path, PathParts(c.path),
                                                    global_exclude_patterns[g])))
            \o FileItems_filtered(Tail(files), changes)

RECURSIVE FileItems(_, _)
FileItems(files, changes) ==
    IF files = <<>> THEN <<>>
    ELSE ItemsOf("file", files[1],
                 SelectSeq(changes, LAMBDA c : c.path = files[1].private_path))
            \o FileItems(Tail(files), changes)

\* SyncConfig.get_enabled_files
get_enabled_files(cfg) == SelectSeq(cfg.files, LAMBDA f : f.enabled)

WorkItems(cfg, changes) ==
    ProjectItems(cfg, get_enabled_projects(cfg), changes)
        \o FileItems(get_enabled_files(cfg), changes)

\* destination path of a change
DestFilePath(item) ==
    IF item.kind = "project"
    THEN resolved_public_path(item.mapping) \o <<SLASH>>
            \o DropFirst(item.change.path, Len(project_prefix(item.mapping)))
    ELSE resolved_public_path(item.mapping)

\* st = [repo, files_to_stage, files_to_remove]: the destination and the two
\* lists of _sync_single_commit
LoopState(repo, files_to_stage, files_to_remove) ==
    [repo |-> repo, files_to_stage |-> files_to_stage,
     files_to_remove |-> files_to_remove]

\* a deleted file of a project: lines 289-293
ProjectDeletion(st, d) ==
    LoopState(d.repo, st.files_to_stage,
              IF d.deleted # NoPath
              THEN Append(st.files_to_remove, d.deleted)
              ELSE st.files_to_remove)

\* a deleted mapped file: lines 320-325
FileDeletion(st, public_file, dry_run) ==
    IF public_file \in DOMAIN st.repo.wt
    THEN LoopState(IF dry_run THEN st.repo
                   ELSE [st.repo EXCEPT !.wt = TreeRemove(@, public_file)],
                   st.files_to_stage, Append(st.files_to_remove, public_file))
    ELSE st

\* an added or modified file: lines 295-309 and 327-339
FileWrite(st, public_file, content, dry_run) ==
    IF ~dry_run /\ content # 0
    THEN LoopState([st.repo EXCEPT !.wt = TreeWrite(@, public_file, content)],
                   Append(st.files_to_stage, public_file), st.files_to_remove)
    ELSE st

\* one iteration of the loop bodies
ApplyItem(objs, h, st, item, dry_run) ==
    IF item.change.change_type = "D"
    THEN IF item.kind = "project"
         THEN ProjectDeletion(st, sync_file_deletion(st.repo, item.change.path,
                                                     item.mapping))
         ELSE FileDeletion(st, DestFilePath(item), dry_run)
    ELSE FileWrite(st, DestFilePath(item),
                   get_file_content_at_commit(objs, h, item.change.path), dry_run)

\* the iteration touches the destination's file system (unlink, mkdir, write)
ItemDoesIO(objs, h, st, item, dry_run) ==
    IF item.change.change_type = "D"
    THEN /\ DestFilePath(item) \in DOMAIN st.repo.wt
         /\ (item.kind = "project" \/ ~dry_run)
    ELSE ~dry_run /\ get_file_content_at_commit(objs, h, item.change.path) # 0

RECURSIVE ApplyItems(_, _, _, _, _, _)
ApplyItems(objs, h, st, items, n, dry_run) ==
    IF n = 0 THEN st
    ELSE ApplyItem(objs, h, ApplyItems(objs, h, st, items, n - 1, dry_run),
                   items[n], dry_run)

\* faulty variant: the message ends without the provenance trailer
commit_message_no_trailer(cfg, objs, h) ==
    <<cfg.commit_prefix, SP>> \o strip(objs[h].message)

\* the destination commit message: line 358
commit_message(cfg, objs, h) ==
    <<cfg.commit_prefix, SP>> \o strip(objs[h].message) \o <<BLANK, SyncedFrom(h)>>

\* Faults: where an exception is raised inside _sync_single_commit
NoFault == [at |-> "none", k |-> 0]
Fault(at, k) == [at |-> at, k |-> k]

\* git commit did not fail
NO_ERROR == Tok("none", 0)

\* outcome of _sync_single_commit: ret = 0 stands for None; commit_error is
\* what git commit printed when it failed
Outcome(objs, repo, ret, raised) ==
    [objs |-> objs, repo |-> repo, ret |-> ret, raised |-> raised,
     commit_error |-> NO_ERROR]

\* the faults that can occur while replicating a commit: an exception while
\* the k-th change is materialised (unlink, mkdir, write), from git add,
\* or from git commit (other than 'nothing to commit'); st is the state
\* after the loops
Faults(objs, h, st0, items, st, dry_run) ==
    {NoFault}
       \cup {Fault("item", k) : k \in
                {j \in 1..Len(items) :
                    ItemDoesIO(objs, h,
                               ApplyItems(objs, h, st0, items, j - 1, dry_run),
                               items[j], dry_run)}}
       \cup (IF ~dry_run /\ st.files_to_stage # <<>>
             THEN {Fault("stage", 0)} ELSE {})
       \cup (IF ~dry_run /\ (st.files_to_stage # <<>> \/ st.files_to_remove # <<>>)
             THEN {Fault("commit", 0)} ELSE {})

\* lines 364-377: the created commit is returned
Committed(done) == Outcome(done.objs, done.repo, done.repo.head, FALSE)

\* lines 365-370: dest_repo.commit with the authorship of the source commit
CommitAs(objs, dest_name, repo, message, info) ==
    commit(objs, dest_name, repo, message,
           info.author_name, info.author_email, info.author_date)

\* what git commit prints when it fails
GIT_CLEAN == Tok("nothing to commit, working tree clean", 0)
GIT_UNSTAGED == Tok("no changes added to commit", 0)
GIT_FAILED == Tok("fatal", 0)

\* str(e) of the GitCommandError: the command line, which holds the commit
\* message, followed by git's output
str_e(message, output) == Append(message, output)

\* "nothing to commit" in str(e).lower()
nothing_to_commit_in(text) ==
    \E k \in 1..Len(text) : text[k] \in {NTC, GIT_CLEAN}

\* lines 373-377: the exception handler of the commit
CommitFailed(objs, repo, message, output) ==
    [Outcome(objs, repo, 0, ~nothing_to_commit_in(str_e(message, output)))
        EXCEPT !.commit_error = output]

\* lines 357-377: git commit of what was staged
CommitStaged(cfg, objs, h, dest_name, fault, repo) ==
    IF fault.at = "commit"
    THEN CommitFailed(objs, repo, commit_message(cfg, objs, h), GIT_FAILED)
    ELSE IF NothingStaged(objs, repo)
         THEN CommitFailed(objs, repo, commit_message(cfg, objs, h),
                           IF WorkingTreeClean(repo)
                           THEN GIT_CLEAN ELSE GIT_UNSTAGED)
         ELSE Committed(CommitAs(objs, dest_name, repo,
                                 commit_message(cfg, objs, h),
                                 from_commit(objs, h)))

\* faulty variant: no early return, the commit is made with what the index
\* holds
StageAndCommit_always(cfg, objs, h, dest_name, fault, st, dry_run) ==
    IF dry_run
    THEN Outcome(objs, st.repo, DRY_RUN, FALSE)
    ELSE Committed(CommitAs(objs, dest_name, st.repo,
                            commit_message(cfg, objs, h), from_commit(objs, h)))

\* lines 341-355: nothing to do, the dry-run result, git add and git rm
StageAndCommit(cfg, objs, h, dest_name, fault, st, dry_run) ==
    IF st.files_to_stage = <<>> /\ st.files_to_remove = <<>>
    THEN Outcome(objs, st.repo, 0, FALSE)
    ELSE IF dry_run
    THEN Outcome(objs, st.repo, DRY_RUN, FALSE)
    ELSE IF \/ fault.at = "stage"
            \/ ~(SeqSet(st.files_to_stage) \subseteq DOMAIN st.repo.wt)
    THEN Outcome(objs, st.repo, 0, TRUE)
    ELSE CommitStaged(cfg, objs, h, dest_name, fault,
                      remove_files(IF st.files_to_stage # <<>>
                                   THEN stage_files(st.repo, st.files_to_stage)
                                   ELSE st.repo,
                                   st.files_to_remove))

\* the outcomes of the loops over items followed by the commit
Outcomes(cfg, objs, h, dest_name, st0, items, st, dry_run) ==
    {IF fault.at = "item"
     THEN Outcome(objs,
                  ApplyItems(objs, h, st0, items, fault.k - 1, dry_run).repo,
                  0, TRUE)
     ELSE StageAndCommit(cfg, objs, h, dest_name, fault, st, dry_run) :
        fault \in Faults(objs, h, st0, items, st, dry_run)}

SyncItems(cfg, objs, h, dest_name, st0, items, dry_run) ==
    Outcomes(cfg, objs, h, dest_name, st0, items,
             ApplyItems(objs, h, st0, items, Len(items), dry_run), dry_run)

\* _sync_single_commit: its possible outcomes, one for every fault that can
\* occur
_sync_single_commit(cfg, objs, rp, h, dest_name, dry_run) ==
    SyncItems(cfg, objs, h, dest_name, LoopState(rp[dest_name], <<>>, <<>>),
              WorkItems(cfg, files_changed(objs, rp, h)), dry_run)

\* ------------------------------------------------------------------------
\* syncer.py: RepoSyncer.sync
\* ------------------------------------------------------------------------
NoMappings == [h \in {} |-> 0]

\* SyncResult as sync() creates it
InitResult ==
    [success |-> TRUE, commits_synced |-> 0, files_changed |-> 0,
     errors |-> <<>>, warnings |-> <<>>, commit_mappings |-> NoMappings]

NoRun ==
    [status |-> "none", direction |-> "none", dry_run |-> FALSE,
     pending |-> <<>>, next |-> 1, result |-> InitResult, last_synced |-> 0,
     src_head |-> 0, push |-> "none", pushed_to |-> <<>>,
     commit_error |-> NO_ERROR]

\* what is remembered of the invocation before the current one
Summary(r) ==
    [status |-> r.status, direction |-> r.direction, dry_run |-> r.dry_run,
     success |-> r.result.success, commits_synced |-> r.result.commits_synced,
     mapped |-> DOMAIN r.result.commit_mappings, errors |-> r.result.errors,
     src_head |-> r.src_head]

NoSummary == Summary(NoRun)

SourceOf(direction) == IF direction = P2P THEN PRIVATE ELSE PUBLIC
DestOf(direction) == IF direction = P2P THEN PUBLIC ELSE PRIVATE

\* RepoSyncer._init_repos of a fresh RepoSyncer
_init_repos(cfg, objs, rp, remote_head, force_reclone) ==
    [rp EXCEPT ![PUBLIC] = clone_repo(objs, rp[PUBLIC], remote_head, force_reclone)]

\* RepoSyncer._get_last_synced_commit
_get_last_synced_commit(cfg, objs, rp, direction) ==
    get_last_synced_commit(objs, rp[DestOf(direction)], cfg.commit_prefix)

\* the paths get_pending_commits limits the enumeration to
sync_paths(cfg, direction) ==
    LET projects == get_enabled_projects(cfg)
        files == get_enabled_files(cfg)
    IN IF direction = P2P
       THEN [k \in 1..Len(projects) |-> projects[k].private_path]
            \o [k \in 1..Len(files) |-> files[k].private_path]
       ELSE [k \in 1..Len(projects) |-> resolved_public_path(projects[k])]
            \o [k \in 1..Len(files) |-> resolved_public_path(files[k])]

\* RepoSyncer.get_pending_commits
get_pending_commits(cfg, objs, rp, direction) ==
    get_commits_since(objs, SourceOf(direction), rp[SourceOf(direction)],
                      _get_last_synced_commit(cfg, objs, rp, direction),
                      sync_paths(cfg, direction))

\* faulty variant: the SyncResult of the invocation before is used again
StartRun_stale_result(direction, dry_run, rp, pending) ==
    /\ repos' = rp
    /\ run' = [status |-> IF pending = <<>> THEN "returned" ELSE "running",
               direction |-> direction, dry_run |-> dry_run,
               pending |-> pending, next |-> 1, result |-> run.result,
               last_synced |->
                   _get_last_synced_commit(config, objects, rp, direction),
               src_head |-> rp[SourceOf(direction)].head,
               push |-> "none", pushed_to |-> <<>>,
               commit_error |-> NO_ERROR]
    /\ pc' = IF pending = <<>> THEN "done" ELSE "loop"

\* lines 196-206: the run starts, or returns when nothing is pending
StartRun(direction, dry_run, rp, pending) ==
    /\ repos' = rp
    /\ run' = [status |-> IF pending = <<>> THEN "returned" ELSE "running",
               direction |-> direction, dry_run |-> dry_run,
               pending |-> pending, next |-> 1, result |-> InitResult,
               last_synced |->
                   _get_last_synced_commit(config, objects, rp, direction),
               src_head |-> rp[SourceOf(direction)].head,
               push |-> "none", pushed_to |-> <<>>,
               commit_error |-> NO_ERROR]
    /\ pc' = IF pending = <<>> THEN "done" ELSE "loop"

\* line 196: pending_commits = self.get_pending_commits(direction)
Enumerate(direction, dry_run, rp) ==
    StartRun(direction, dry_run, rp,
             get_pending_commits(config, objects, rp, direction))

\* sync() of a fresh RepoSyncer up to the loop: lines 174-206
BeginSync(direction, dry_run) ==
    /\ pc \in {"idle", "done"}
    /\ events < MaxEvents
    /\ Enumerate(direction, dry_run,
                 _init_repos(config, objects, repos, origin, FALSE))
    /\ prev' = IF run.status = "none" THEN prev ELSE Summary(run)
    /\ events' = events + 1
    /\ UNCHANGED <<objects, origin, config, probe>>

\* faulty variant: the error is recorded, success stays true
RecordError_success_kept(result, h) ==
    [result EXCEPT !.errors = Append(@, h)]

\* lines 232-240: the exception handler of the loop
RecordError(result, h) ==
    [result EXCEPT !.errors = Append(@, h), !.success = FALSE]

\* faulty variant: the commit is counted, its mapping is not recorded
RecordSynced_unmapped(result, h, ret, n_files) ==
    [result EXCEPT !.commits_synced = @ + 1,
                   !.files_changed = @ + n_files]

\* lines 219-230: a commit was made (or, in a dry run, would have been)
RecordSynced(result, h, ret, n_files) ==
    [result EXCEPT !.commit_mappings = (h :> ret) @@ @,
                   !.commits_synced = @ + 1,
                   !.files_changed = @ + n_files]

\* one iteration with the outcome of _sync_single_commit
Iteration(h, dest, out) ==
    /\ objects' = out.objs
    /\ repos' = [repos EXCEPT ![dest] = out.repo]
    /\ IF out.raised
       THEN /\ run' = [run EXCEPT !.result = RecordError(@, h),
                                  !.commit_error = out.commit_error]
            /\ pc' = "finish"
       ELSE /\ run' = [run EXCEPT
                         !.next = @ + 1,
                         !.commit_error = out.commit_error,
                         !.result =
                             IF out.ret # 0
                             THEN RecordSynced(@, h, out.ret,
                                      Len(files_changed(objects, repos, h)))
                             ELSE @]
            /\ pc' = IF run.next = Len(run.pending) THEN "finish" ELSE "loop"

\* one iteration of the loop over pending_commits: lines 215-240
SyncStep ==
    /\ pc = "loop"
    /\ \E out \in _sync_single_commit(config, objects, repos,
                                      run.pending[run.next],
                                      DestOf(run.direction), run.dry_run) :
          Iteration(run.pending[run.next], DestOf(run.direction), out)
    /\ UNCHANGED <<origin, config, prev, events, probe>>

\* faulty variant: no push after a run that recorded an error
should_push_on_success(cfg, dry_run, result) ==
    ~dry_run /\ cfg.auto_push /\ result.commits_synced > 0 /\ result.success

\* line 244: the condition of the push
should_push(cfg, dry_run, result) ==
    ~dry_run /\ cfg.auto_push /\ result.commits_synced > 0

\* lines 247-256: the remote and the branch dest_repo.push is called with
push_target(cfg, direction) ==
    IF direction = P2P
    THEN <<cfg.public_remote, cfg.public_branch>>
    ELSE <<cfg.private_remote, cfg.private_branch>>

\* how GitRepository.push ends: the remote takes the branch; an exception
\* is raised (no such remote, the remote cannot be reached); or the remote
\* answers and rejects the update, which remote.push() of GitPython reports
\* in the PushInfo list it returns, without raising
PushOutcomes == {"ok", "raised", "rejected"}

\* the push and the return: lines 244-266
Finish ==
    /\ pc = "finish"
    /\ IF should_push(config, run.dry_run, run.result)
       THEN \E outcome \in PushOutcomes :
               /\ run' = [run EXCEPT
                            !.status = "returned",
                            !.push = outcome,
                            !.pushed_to = push_target(config, run.direction),
                            !.result.warnings =
                                IF outcome = "raised"
                                THEN Append(@, "Push failed") ELSE @]
               /\ origin' = IF outcome = "ok" /\ run.direction = P2P
                            THEN repos[PUBLIC].head ELSE origin
       ELSE /\ run' = [run EXCEPT !.status = "returned"]
            /\ origin' = origin
    /\ pc' = "done"
    /\ UNCHANGED <<objects, repos, config, prev, events, probe>>

\* the process is killed while it replicates a commit
Crash ==
    /\ pc = "loop"
    /\ \E out \in _sync_single_commit(config, objects, repos,
                                      run.pending[run.next],
                                      DestOf(run.direction), run.dry_run) :
          /\ out.raised
          /\ repos' = [repos EXCEPT ![DestOf(run.direction)] = out.repo]
    /\ run' = [run EXCEPT !.status = "crashed"]
    /\ pc' = "idle"
    /\ UNCHANGED <<objects, origin, config, prev, events, probe>>

\* ------------------------------------------------------------------------
\* syncer.py: RepoSyncer.sync_full
\* ------------------------------------------------------------------------
\* shutil.rmtree of a directory of the working tree
rmtree(repo, dir) ==
    [repo EXCEPT !.wt =
        [p \in {q \in DOMAIN repo.wt :
                   ~StartsWith(q, rstrip_slash(dir) \o <<SLASH>>)} |-> repo.wt[p]]]

\* copy_project_files, one file of the source working tree: it is copied
\* when it is under the mapped directory and the patterns let it through
CopyFile(source, st, project, cfg, path, rel_path) ==
    IF /\ path \in DOMAIN source.wt
       /\ StartsWith(path, project_prefix(project))
       /\ should_include_file(rel_path, project, cfg)
    THEN LoopState([st.repo EXCEPT !.wt =
                       TreeWrite(@, resolved_public_path(project)
                                       \o <<SLASH>> \o rel_path,
                                 source.wt[path])],
                   Append(st.files_to_stage,
                          resolved_public_path(project) \o <<SLASH>> \o rel_path),
                   st.files_to_remove)
    ELSE st

RECURSIVE CopyFiles(_, _, _, _, _)
CopyFiles(source, st, project, cfg, k) ==
    IF k > Len(AllPaths) THEN st
    ELSE CopyFiles(source,
                   CopyFile(source, st, project, cfg, AllPaths[k],
                            DropFirst(AllPaths[k], Len(project_prefix(project)))),
                   project, cfg, k + 1)

\* copy_project_files without commit_hash: from the working directory
copy_project_files(source, st, project, cfg) ==
    CopyFiles(source, st, project, cfg, 1)

\* lines 433-455: the loop over the enabled projects
RECURSIVE FullProjects(_, _, _, _, _)
FullProjects(source, st, projects, cfg, dry_run) ==
    IF projects = <<>> THEN st
    ELSE FullProjects(
             source,
             IF dry_run THEN st
             ELSE copy_project_files(
                      source,
                      [st EXCEPT !.repo =
                          rmtree(@, resolved_public_path(projects[1]))],
                      projects[1], cfg),
             Tail(projects), cfg, dry_run)

\* lines 457-476: the loop over the enabled single-file mappings
RECURSIVE FullFiles(_, _, _, _)
FullFiles(source, st, files, dry_run) ==
    IF files = <<>> THEN st
    ELSE FullFiles(
             source,
             IF ~dry_run /\ files[1].private_path \in DOMAIN source.wt
             THEN LoopState([st.repo EXCEPT !.wt =
                                TreeWrite(@, resolved_public_path(files[1]),
                                          source.wt[files[1].private_path])],
                            Append(st.files_to_stage,
                                   resolved_public_path(files[1])),
                            st.files_to_remove)
             ELSE st,
             Tail(files), dry_run)

\* GitRepository.has_staged_changes: a path of the index differs from HEAD
has_staged_changes(objs, repo) == ~NothingStaged(objs, repo)

\* the words 'Full sync from private repo' or 'Full sync from public repo'
FULL_SYNC == Tok("full sync", 0)

\* lines 482-486: the message of the commit of a full sync
full_sync_message(cfg, source) ==
    <<cfg.commit_prefix, SP, FULL_SYNC, BLANK, SyncedFrom(source.head)>>

\* what sync_full leaves: the object store, the destination, the counts
FullOutcome(objs, repo, commits_synced, n_files) ==
    [objs |-> objs, repo |-> repo, commits_synced |-> commits_synced,
     files_changed |-> n_files]

FullCommitted(done, n_files) ==
    FullOutcome(done.objs, done.repo, 1, n_files)

\* lines 478-491: git add of the copied files and the commit
FullCommit(cfg, objs, dest_name, source, repo, all_copied_files, dry_run) ==
    IF dry_run \/ all_copied_files = <<>>
    THEN FullOutcome(objs, repo, 0, 0)
    ELSE IF has_staged_changes(objs, stage_files(repo, all_copied_files))
    THEN FullCommitted(commit(objs, dest_name,
                              stage_files(repo, all_copied_files),
                              full_sync_message(cfg, source), "", "", NoDate),
                       Len(all_copied_files))
    ELSE FullOutcome(objs, stage_files(repo, all_copied_files), 0, 0)

\* the two loops of sync_full
FullCopy(cfg, source, dest, dry_run) ==
    FullFiles(source,
              FullProjects(source, LoopState(dest, <<>>, <<>>),
                           get_enabled_projects(cfg), cfg, dry_run),
              get_enabled_files(cfg), dry_run)

FullReturn(direction, dry_run, rp, out) ==
    /\ objects' = out.objs
    /\ repos' = [rp EXCEPT ![DestOf(direction)] = out.repo]
    /\ run' = [NoRun EXCEPT
                  !.status = "full",
                  !.direction = direction,
                  !.dry_run = dry_run,
                  !.src_head = rp[SourceOf(direction)].head,
                  !.result.commits_synced = out.commits_synced,
                  !.result.files_changed = out.files_changed]

FullRun(direction, dry_run, rp, st) ==
    FullReturn(direction, dry_run, rp,
               FullCommit(config, objects, DestOf(direction),
                          rp[SourceOf(direction)], st.repo, st.files_to_stage,
                          dry_run))

\* sync_full(direction, dry_run) of a fresh RepoSyncer
SyncFull(direction, dry_run) ==
    /\ pc \in {"idle", "done"}
    /\ events < MaxEvents
    /\ FullRun(direction, dry_run,
               _init_repos(config, objects, repos, origin, FALSE),
               FullCopy(config, repos[SourceOf(direction)],
                        _init_repos(config, objects, repos, origin,
                                    FALSE)[DestOf(direction)],
                        dry_run))
    /\ pc' = "done"
    /\ prev' = IF run.status = "none" THEN prev ELSE Summary(run)
    /\ events' = events + 1
    /\ UNCHANGED <<origin, config, probe>>

\* ------------------------------------------------------------------------
\* The environment: developers commit to the private repository, upstream
\* commits land on the public remote
\* ------------------------------------------------------------------------
\* content = 0 deletes the file
Edit(t, path, content) ==
    IF content = 0 THEN TreeRemove(t, path) ELSE TreeWrite(t, path, content)

DevCommit(name, path, content, message, dev) ==
    /\ pc \in {"idle", "done"}
    /\ events < MaxEvents
    /\ LET parent == IF name = PUBLIC THEN origin ELSE repos[name].head
           tree == Edit(Tree(objects, parent), path, content)
       IN /\ tree # Tree(objects, parent)
          /\ objects' = Append(objects,
                                [parent |-> parent, message |-> message,
                                 tree |-> tree, home |-> name,
                                 author |-> Ident(dev.name, dev.email),
                                 date |-> Stamp(Now(objects).t, dev.tz)])
          /\ IF name = PUBLIC
             THEN /\ origin' = Len(objects) + 1
                  /\ repos' = repos
             ELSE /\ origin' = origin
                  /\ repos' = [repos EXCEPT
                                 ![name].head = Len(objects) + 1,
                                 ![name].index = Edit(@, path, content),
                                 ![name].wt = Edit(@, path, content)]
    /\ events' = events + 1
    /\ pc' = "idle"
    /\ run' = NoRun
    /\ prev' = IF run.status = "none" THEN prev ELSE Summary(run)
    /\ UNCHANGED <<config, probe>>

\* a developer edits two files of the private repository and commits
DevCommitTwo(first, second, message, dev) ==
    /\ pc \in {"idle", "done"}
    /\ events < MaxEvents
    /\ first[1] # second[1]
    /\ LET old == Tree(objects, repos[PRIVATE].head)
       IN /\ Edit(old, first[1], first[2]) # old
          /\ Edit(old, second[1], second[2]) # old
          /\ objects' = Append(objects,
                                [parent |-> repos[PRIVATE].head,
                                 message |-> message,
                                 tree |-> Edit(Edit(old, first[1], first[2]),
                                               second[1], second[2]),
                                 home |-> PRIVATE,
                                 author |-> Ident(dev.name, dev.email),
                                 date |-> Stamp(Now(objects).t, dev.tz)])
    /\ repos' = [repos EXCEPT
                    ![PRIVATE].head = Len(objects) + 1,
                    ![PRIVATE].index =
                        Edit(Edit(@, first[1], first[2]), second[1], second[2]),
                    ![PRIVATE].wt =
                        Edit(Edit(@, first[1], first[2]), second[1], second[2])]
    /\ events' = events + 1
    /\ pc' = "idle"
    /\ run' = NoRun
    /\ prev' = IF run.status = "none" THEN prev ELSE Summary(run)
    /\ UNCHANGED <<origin, config, probe>>

\* git mv old_path path, committed
Move(t, old_path, path) == TreeWrite(TreeRemove(t, old_path), path, t[old_path])

\* a developer renames a file of the private repository and commits
DevRename(old_path, path, message, dev) ==
    /\ pc \in {"idle", "done"}
    /\ events < MaxEvents
    /\ old_path \in DOMAIN Tree(objects, repos[PRIVATE].head)
    /\ path \notin DOMAIN Tree(objects, repos[PRIVATE].head)
    /\ objects' = Append(objects,
                          [parent |-> repos[PRIVATE].head, message |-> message,
                           tree |-> Move(Tree(objects, repos[PRIVATE].head),
                                         old_path, path),
                           home |-> PRIVATE,
                           author |-> Ident(dev.name, dev.email),
                           date |-> Stamp(Now(objects).t, dev.tz)])
    /\ repos' = [repos EXCEPT
                    ![PRIVATE].head = Len(objects) + 1,
                    ![PRIVATE].index = Move(@, old_path, path),
                    ![PRIVATE].wt = Move(@, old_path, path)]
    /\ events' = events + 1
    /\ pc' = "idle"
    /\ run' = NoRun
    /\ prev' = IF run.status = "none" THEN prev ELSE Summary(run)
    /\ UNCHANGED <<origin, config, probe>>

\* a developer: the identity and the time zone of their commits
Developer(name, email, tz) == [name |-> name, email |-> email, tz |-> tz]

DEV == Developer("dev", "dev@host", 1)

\* messages developers write: plain text, or text quoting the provenance
\* trailer of a commit of the other repository
DevMessages(name) ==
    {<<TXT>>, <<TXT, BLANK, SyncedFrom(IF name = PRIVATE THEN 2 ELSE 1)>>}

\* ------------------------------------------------------------------------
\* Specifications
\* ------------------------------------------------------------------------
Project(private_path, public_path) ==
    [private_path |-> private_path, public_path |-> public_path,
     enabled |-> TRUE, exclude_patterns |-> <<>>, include_patterns |-> <<>>]

ProjectWith(private_path, public_path, exclude_patterns, include_patterns) ==
    [Project(private_path, public_path) EXCEPT
        !.exclude_patterns = exclude_patterns,
        !.include_patterns = include_patterns]

\* FileMapping: a single file, private_path -> public_path
FileMapping(private_path, public_path) ==
    [private_path |-> private_path, public_path |-> public_path,
     enabled |-> TRUE]

Config(projects, auto_push) ==
    [projects |-> projects, files |-> <<>>,
     global_exclude_patterns |-> global_exclude_patterns,
     commit_prefix |-> SYNC_PREFIX, auto_push |-> auto_push,
     private_remote |-> "upstream", private_branch |-> "develop",
     public_remote |-> "origin", public_branch |-> "main"]

\* a call of should_include_file or filter_commit_files: its arguments and,
\* once it returned, its result
Probe(fn, path, changes, project) ==
    [fn |-> fn, path |-> path, changes |-> changes, project |-> project,
     returned |-> FALSE, included |-> FALSE, relevant |-> <<>>]

NoProbe == Probe("none", <<>>, <<>>, Project(<<>>, NoPath))

RootCommit(name, tree, message) ==
    [parent |-> 0, message |-> message, tree |-> tree, home |-> name,
     author |-> Ident(DEV.name, DEV.email), date |-> Stamp(0, DEV.tz)]

CleanRepo(h, tree) == [head |-> h, index |-> tree, wt |-> tree]

\* two repositories with one commit each
InitRepos(private_tree, public_tree, private_message) ==
    /\ objects = <<RootCommit(PRIVATE, private_tree, private_message),
                   RootCommit(PUBLIC, public_tree, <<TXT>>)>>
    /\ repos = [r \in {PRIVATE, PUBLIC} |->
                   IF r = PRIVATE THEN CleanRepo(1, private_tree)
                   ELSE CleanRepo(2, public_tree)]
    /\ origin = 2
    /\ pc = "idle"
    /\ run = NoRun
    /\ prev = NoSummary
    /\ events = 0
    /\ probe = NoProbe

\* the edits developers commit: <<path, content>>, content 0 deletes
DevEdits ==
    {<<P_A, 0>>, <<P_A, 1>>, <<P_A, 2>>, <<P_ENV, 0>>, <<P_ENV, 1>>, <<Q_A, 1>>}

\* private-to-public runs of the mapping p -> q
Init ==
    /\ InitRepos(EmptyTree, EmptyTree, <<TXT>>)
    /\ \E auto_push \in BOOLEAN :
          config = Config(<<Project(<<"p">>, <<"q">>)>>, auto_push)

Next ==
    \/ \E edit \in DevEdits, message \in DevMessages(PRIVATE) :
          DevCommit(PRIVATE, edit[1], edit[2], message, DEV)
    \/ \E dry_run \in BOOLEAN : BeginSync(P2P, dry_run)
    \/ SyncStep
    \/ Finish

Spec == Init /\ [][Next]_vars

\* private-to-public runs of the mapping p -> q over commits of several
\* authors, with messages that hold the words 'nothing to commit'
Developers == {DEV, Developer("dev", "", 1), Developer("", "dev@host", 0)}

AttrEdits == {<<P_A, 0>>, <<P_A, 1>>, <<P_A, 2>>}

AttrMessages == {<<TXT>>, <<TXT, SP, NTC>>}

NextAttr ==
    \/ \E edit \in AttrEdits, message \in AttrMessages, dev \in Developers :
          DevCommit(PRIVATE, edit[1], edit[2], message, dev)
    \/ BeginSync(P2P, FALSE)
    \/ SyncStep
    \/ Finish

SpecAttr == Init /\ [][NextAttr]_vars

\* the edits that land on the public remote
RevEdits ==
    {<<P_A, 0>>, <<P_A, 1>>, <<P_A, 2>>, <<P_ENV, 1>>,
     <<Q_A, 0>>, <<Q_A, 1>>, <<Q_A, 2>>}

\* public-to-private runs of the mapping p -> p or p -> q, the mapped
\* directory holding the file a on both sides: the private commit is the
\* replica of the public one
InitRev ==
    \E public_path \in {NoPath, <<"q">>}, auto_push \in BOOLEAN :
        /\ InitRepos(TreeWrite(EmptyTree, P_A, 1),
                     TreeWrite(EmptyTree,
                               IF public_path = NoPath THEN P_A ELSE Q_A, 1),
                     <<SYNC_PREFIX, SP, TXT, BLANK, SyncedFrom(2)>>)
        /\ config = Config(<<Project(<<"p">>, public_path)>>, auto_push)

NextRev ==
    \/ \E edit \in RevEdits, message \in DevMessages(PUBLIC) :
          DevCommit(PUBLIC, edit[1], edit[2], message, DEV)
    \/ \E dry_run \in BOOLEAN : BeginSync(PUB2PRIV, dry_run)
    \/ SyncStep
    \/ Finish
    \/ Crash

SpecRev == InitRev /\ [][NextRev]_vars

\* private-to-public runs of the directory mapping p -> q together with
\* a mapping of the single file p/.env, to q/.env or to the same path
FileEdits ==
    {<<P_ENV, 0>>, <<P_ENV, 1>>, <<P_ENV, 2>>, <<P_A, 0>>, <<P_A, 1>>}

InitFile ==
    /\ InitRepos(EmptyTree, EmptyTree, <<TXT>>)
    /\ \E public_path \in {Q_ENV, NoPath}, auto_push \in BOOLEAN :
          config = [Config(<<Project(<<"p">>, <<"q">>)>>, auto_push) EXCEPT
                       !.files = <<FileMapping(P_ENV, public_path)>>]

NextFile ==
    \/ \E edit \in FileEdits : DevCommit(PRIVATE, edit[1], edit[2], <<TXT>>, DEV)
    \/ \E dry_run \in BOOLEAN : BeginSync(P2P, dry_run)
    \/ SyncStep
    \/ Finish

SpecFile == InitFile /\ [][NextFile]_vars

\* ------------------------------------------------------------------------
\* The path filter on its own: should_include_file and filter_commit_files
\* called with paths, change lists and pattern lists of every kind
\* ------------------------------------------------------------------------
\* paths relative to a mapping
ProbePaths ==
    {<<"a">>, <<"a", ".", "t">>, <<"d", "/", "a">>, <<"d", "/", "a", ".", "t">>,
     <<".", "e", "n", "v">>, <<"d", "/", ".", "e", "n", "v">>,
     <<"t", "/", "a">>, <<"d", "/", "t">>}

\* exclude_patterns of a mapping
ProbeExcludes ==
    {<<>>,
     << <<"*", ".", "t">> >>,
     << <<"d", "/">> >>,
     << <<"t">> >>,
     << <<"d", "/", "*">> >>,
     << <<"d", "/">>, <<"*", ".", "t">> >>}

\* include_patterns of a mapping
ProbeIncludes ==
    {<<>>,
     << <<"*", ".", "t">> >>,
     << <<"d", "/", "*">> >>,
     << <<"a">> >>,
     << <<"d", "/", "*">>, <<"a">> >>}

\* global_exclude_patterns: the default list, or none
ProbeGlobals == {global_exclude_patterns, <<>>}

\* private_path of a mapping, with and without a trailing '/'
ProbePrivatePaths == {<<"p">>, <<"p", "/">>}

\* paths of the changes of a commit: under p, under the sibling p2, under q
ProbeChangePaths ==
    {P_A, P_ENV, <<"p", "/", "d", "/", "a", ".", "t">>,
     <<"p", "2", "/", "a">>, Q_A}

\* commit.files_changed: up to MaxChanges changes of distinct paths
ProbeChangeLists ==
    {[k \in 1..Len(paths) |-> FileChange(paths[k], "M")] :
        paths \in {ps \in UNION {[1..n -> ProbeChangePaths] : n \in 0..MaxChanges} :
                     \A i, j \in 1..Len(ps) : i # j => ps[i] # ps[j]}}

ProbeProjects(private_paths) ==
    {ProjectWith(private_path, NoPath, exclude_patterns, include_patterns) :
        private_path \in private_paths,
        exclude_patterns \in ProbeExcludes,
        include_patterns \in ProbeIncludes}

InitFilter ==
    /\ objects = <<>>
    /\ repos = [r \in {PRIVATE, PUBLIC} |-> CleanRepo(0, EmptyTree)]
    /\ origin = 0
    /\ pc = "idle"
    /\ run = NoRun
    /\ prev = NoSummary
    /\ events = 0
    /\ \/ \E path \in ProbePaths, project \in ProbeProjects({<<"p">>}) :
             probe = Probe("should_include_file", path, <<>>, project)
       \/ \E changes \in ProbeChangeLists,
             project \in ProbeProjects(ProbePrivatePaths) :
             probe = Probe("filter_commit_files", <<>>, changes, project)
    /\ \E patterns \in ProbeGlobals :
          config = [Config(<<probe.project>>, FALSE) EXCEPT
                       !.global_exclude_patterns = patterns]

\* should_include_file(file_path, project, config) is called and returns
CallShouldIncludeFile ==
    /\ probe.fn = "should_include_file"
    /\ ~probe.returned
    /\ probe' = [probe EXCEPT
                    !.returned = TRUE,
                    !.included = should_include_file(probe.path, probe.project,
                                                     config)]
    /\ UNCHANGED <<objects, repos, origin, config, pc, run, prev, events>>

\* filter_commit_files(commit, project, config) is called and returns
CallFilterCommitFiles ==
    /\ probe.fn = "filter_commit_files"
    /\ ~probe.returned
    /\ probe' = [probe EXCEPT
                    !.returned = TRUE,
                    !.relevant = filter_commit_files(probe.changes,
                                                     probe.project, config)]
    /\ UNCHANGED <<objects, repos, origin, config, pc, run, prev, events>>

NextFilter ==
    \/ CallShouldIncludeFile
    \/ CallFilterCommitFiles

SpecFilter == InitFilter /\ [][NextFilter]_vars

\* ------------------------------------------------------------------------
\* The provenance scan on its own: get_last_synced_commit called on
\* histories that are shorter and longer than its window
\* ------------------------------------------------------------------------
\* the message of a sync commit
SyncMessage(h) == <<SYNC_PREFIX, SP, TXT, BLANK, SyncedFrom(h)>>

\* the oldest commits of a history, oldest first
ScanOldest ==
    {<<>>, <<SyncMessage(1)>>, <<SyncMessage(2)>>,
     <<SyncMessage(1), SyncMessage(2)>>,
     <<SyncMessage(2), <<TXT>>, SyncMessage(1)>>}

\* the message of the commits on top of them: plain, with the prefix only,
\* with a trailer only
ScanNewer ==
    {<<TXT>>, <<SYNC_PREFIX, SP, TXT>>, <<TXT, BLANK, SyncedFrom(1)>>,
     <<TXT, BLANK, SyncedFrom(2)>>}

\* how many commits are on top
ScanDepths == {0, 1} \cup ((LOOKBACK - 1)..(LOOKBACK + MaxBeyond))

\* a linear history of the public repository with these messages
ScanHistory(messages) ==
    [k \in 1..Len(messages) |->
        [RootCommit(PUBLIC, EmptyTree, messages[k]) EXCEPT !.parent = k - 1]]

InitScan ==
    /\ \E oldest \in ScanOldest, newer \in ScanNewer, depth \in ScanDepths :
          /\ Len(oldest) + depth > 0
          /\ objects = ScanHistory(oldest \o [k \in 1..depth |-> newer])
    /\ repos = [r \in {PRIVATE, PUBLIC} |->
                   CleanRepo(IF r = PUBLIC THEN Len(objects) ELSE 0, EmptyTree)]
    /\ origin = Len(objects)
    /\ config = Config(<<Project(<<"p">>, <<"q">>)>>, FALSE)
    /\ pc = "idle"
    /\ run = NoRun
    /\ prev = NoSummary
    /\ events = 0
    /\ probe = [fn |-> "get_last_synced_commit", returned |-> FALSE, hash |-> 0]

\* get_last_synced_commit(commit_prefix) is called on the public repository
\* and returns
CallGetLastSyncedCommit ==
    /\ probe.fn = "get_last_synced_commit"
    /\ ~probe.returned
    /\ probe' = [probe EXCEPT
                    !.returned = TRUE,
                    !.hash = get_last_synced_commit(objects, repos[PUBLIC],
                                                    config.commit_prefix)]
    /\ UNCHANGED <<objects, repos, origin, config, pc, run, prev, events>>

SpecScan == InitScan /\ [][CallGetLastSyncedCommit]_vars

\* ------------------------------------------------------------------------
\* The recognition of a sync point on its own: the test of lines 233-237 of
\* git_ops.py on messages given character by character
\* ------------------------------------------------------------------------
\* [a-f0-9]
LowerHex == {"a", "b", "c", "d", "e", "f",
             "0", "1", "2", "3", "4", "5", "6", "7", "8", "9"}

\* \s
Whitespace == {" ", "\n", "\t"}

\* {40}
HASH_LEN == 40

\* the literal synced_from:
SYNCED_FROM == <<"s", "y", "n", "c", "e", "d", "_", "f", "r", "o", "m", ":">>

\* commit_prefix in message
is_in(sub, text) ==
    \E i \in 0..(Len(text) - Len(sub)) : SubSeq(text, i + 1, i + Len(sub)) = sub

\* \s*: the first position from i on that holds no whitespace
RECURSIVE skip_whitespace(_, _)
skip_whitespace(text, i) ==
    IF i <= Len(text) /\ text[i] \in Whitespace
    THEN skip_whitespace(text, i + 1) ELSE i

\* the pattern matches at position i: where its group starts, 0 otherwise
group_at(text, i, j) ==
    IF /\ i + Len(SYNCED_FROM) - 1 <= Len(text)
       /\ SubSeq(text, i, i + Len(SYNCED_FROM) - 1) = SYNCED_FROM
       /\ j + HASH_LEN - 1 <= Len(text)
       /\ \A k \in j..(j + HASH_LEN - 1) : text[k] \in LowerHex
    THEN j ELSE 0

match_at(text, i) ==
    group_at(text, i, skip_whitespace(text, i + Len(SYNCED_FROM)))

\* re.search(r"synced_from:\s*([a-f0-9]{40})", message).group(1) of the
\* leftmost match; <<>> stands for no match
re_search(text) ==
    LET starts == {i \in 1..Len(text) : match_at(text, i) # 0}
    IN IF starts = {} THEN <<>>
       ELSE LET i == CHOOSE m \in starts : \A n \in starts : m <= n
            IN SubSeq(text, match_at(text, i), match_at(text, i) + HASH_LEN - 1)

\* lines 233-237: the hash a commit message yields, <<>> when the commit
\* is passed over
sync_point(message, commit_prefix) ==
    IF is_in(commit_prefix, message) THEN re_search(message) ELSE <<>>

\* characters more or fewer than a hash has
MaxExtra == 1

Repeat(n, c) == [k \in 1..n |-> IF k % 2 = 0 THEN "0" ELSE c]

PREFIX_TEXT == <<"[", "s", "y", "n", "c", "]">>

TrailerHeads == {PREFIX_TEXT \o <<" ", "x">>, <<"x">>}

TrailerKeys == {SYNCED_FROM, <<"S">> \o Tail(SYNCED_FROM), <<>>}

TrailerSpaces == {<<>>, <<" ">>, <<"\n", " ">>}

\* the text after the key: lowercase hex of every length around 40,
\* uppercase hex, other letters, lowercase hex followed by another character
TrailerValues ==
    {Repeat(n, "a") : n \in (HASH_LEN - MaxExtra)..(HASH_LEN + MaxExtra)}
        \cup {Repeat(HASH_LEN, "A"), Repeat(HASH_LEN, "g"),
              Repeat(HASH_LEN - 1, "f") \o <<"F">>,
              Repeat(HASH_LEN, "f") \o <<"F">>}

TrailerTails == {<<>>, <<"\n">>}

InitTrailer ==
    /\ objects = <<>>
    /\ repos = [r \in {PRIVATE, PUBLIC} |-> CleanRepo(0, EmptyTree)]
    /\ origin = 0
    /\ config = Config(<<Project(<<"p">>, <<"q">>)>>, FALSE)
    /\ pc = "idle"
    /\ run = NoRun
    /\ prev = NoSummary
    /\ events = 0
    /\ \E head \in TrailerHeads, key \in TrailerKeys, space \in TrailerSpaces,
          value \in TrailerValues, tail \in TrailerTails :
          probe = [fn |-> "sync_point", head |-> head, key |-> key,
                   value |-> value,
                   message |-> head \o <<"\n", "\n">> \o key \o space
                                  \o value \o tail,
                   returned |-> FALSE, hash |-> <<>>]

\* the loop body of get_last_synced_commit runs on a commit with the message
CallSyncPoint ==
    /\ probe.fn = "sync_point"
    /\ ~probe.returned
    /\ probe' = [probe EXCEPT
                    !.returned = TRUE,
                    !.hash = sync_point(probe.message, PREFIX_TEXT)]
    /\ UNCHANGED <<objects, repos, origin, config, pc, run, prev, events>>

SpecTrailer == InitTrailer /\ [][CallSyncPoint]_vars

\* full syncs, private to public, of the directory mapping p -> q, with or
\* without a mapping of the single file p/.env; the public repository is
\* empty or holds q/a already
FullEdits ==
    {<<P_A, 0>>, <<P_A, 1>>, <<P_A, 2>>, <<P_ENV, 0>>, <<P_ENV, 1>>}

InitFull ==
    \E public_tree \in {EmptyTree, TreeWrite(EmptyTree, Q_A, 1)},
       files \in {<<>>, <<FileMapping(P_ENV, Q_ENV)>>} :
        /\ InitRepos(EmptyTree, public_tree, <<TXT>>)
        /\ config = [Config(<<Project(<<"p">>, <<"q">>)>>, FALSE) EXCEPT
                        !.files = files]

NextFull ==
    \/ \E edit \in FullEdits : DevCommit(PRIVATE, edit[1], edit[2], <<TXT>>, DEV)
    \/ \E dry_run \in BOOLEAN : SyncFull(P2P, dry_run)

SpecFull == InitFull /\ [][NextFull]_vars

\* ------------------------------------------------------------------------
\* clone_repo on its own: what it does to the path it is given
\* ------------------------------------------------------------------------
\* the remote 'origin' of a repository does not exist
NoRemote == {"no remote"}

\* what is at the path: nothing, a directory that is no repository, or a
\* repository with the URLs of its remote 'origin'
PathState(exists, valid, origin_urls) ==
    [exists |-> exists, valid |-> valid, origin_urls |-> origin_urls]

\* what clone_repo did: rmtree |-> the directory was removed, clone_from |->
\* the URL was cloned, fetched |-> origin was fetched, reset |-> the branch
\* was reset to origin/<branch>
CloneSteps(rmtree_path, clone_from, fetched, reset) ==
    [rmtree |-> rmtree_path, clone_from |-> clone_from, fetched |-> fetched,
     reset |-> reset]

\* lines 59-67: Repo.clone_from after the directory was removed, or when
\* there was none
Reclone(exists) == CloneSteps(exists, TRUE, FALSE, FALSE)

\* faulty variant: a clone of another URL is fetched and kept
clone_repo_steps_any_remote(at, url, branch, force_reclone, fault) ==
    IF ~at.exists \/ force_reclone \/ ~at.valid \/ at.origin_urls = NoRemote
       \/ fault \in {"urls", "fetch"} \/ (fault = "reset" /\ branch # "")
    THEN Reclone(at.exists)
    ELSE CloneSteps(FALSE, FALSE, TRUE, branch # "")

\* clone_repo(url, path, branch, force_reclone); fault is the git command
\* that raises GitCommandError when it is run, branch = "" stands for None
clone_repo_steps(at, url, branch, force_reclone, fault) ==
    IF ~at.exists THEN Reclone(FALSE)
    ELSE IF force_reclone THEN Reclone(TRUE)
    ELSE IF ~at.valid THEN Reclone(TRUE)
    ELSE IF at.origin_urls = NoRemote THEN Reclone(TRUE)
    ELSE IF fault = "urls" THEN Reclone(TRUE)
    ELSE IF url \notin at.origin_urls THEN Reclone(TRUE)
    ELSE IF fault = "fetch" THEN Reclone(TRUE)
    ELSE IF branch # "" /\ fault = "reset" THEN Reclone(TRUE)
    ELSE CloneSteps(FALSE, FALSE, TRUE, branch # "")

CloneUrls == {"git@host:org/repo.git", "https://host/org/repo"}

InitClone ==
    /\ objects = <<>>
    /\ repos = [r \in {PRIVATE, PUBLIC} |-> CleanRepo(0, EmptyTree)]
    /\ origin = 0
    /\ config = Config(<<Project(<<"p">>, <<"q">>)>>, FALSE)
    /\ pc = "idle"
    /\ run = NoRun
    /\ prev = NoSummary
    /\ events = 0
    /\ \E exists \in BOOLEAN, valid \in BOOLEAN,
          origin_urls \in {NoRemote} \cup (SUBSET CloneUrls \ {{}}),
          url \in CloneUrls, branch \in {"", "main"},
          force_reclone \in BOOLEAN,
          fault \in {"none", "urls", "fetch", "reset"} :
          probe = [fn |-> "clone_repo",
                   at |-> PathState(exists, valid, origin_urls),
                   url |-> url, branch |-> branch,
                   force_reclone |-> force_reclone, fault |-> fault,
                   returned |-> FALSE,
                   steps |-> CloneSteps(FALSE, FALSE, FALSE, FALSE)]

\* clone_repo(url, path, branch, force_reclone) is called and returns
CallCloneRepo ==
    /\ probe.fn = "clone_repo"
    /\ ~probe.returned
    /\ probe' = [probe EXCEPT
                    !.returned = TRUE,
                    !.steps = clone_repo_steps(probe.at, probe.url, probe.branch,
                                               probe.force_reclone, probe.fault)]
    /\ UNCHANGED <<objects, repos, origin, config, pc, run, prev, events>>

SpecClone == InitClone /\ [][CallCloneRepo]_vars

\* ------------------------------------------------------------------------
\* config.py: SyncConfig.public_repo_path, on URLs given character by
\* character
\* ------------------------------------------------------------------------
DEFAULT_CLONE_DIR == <<"~", SLASH, ".git_syncer", SLASH, "repos">>

DOT_GIT == <<".", "g", "i", "t">>

PUBLIC_REPO == <<"p", "u", "b", "l", "i", "c", "-", "r", "e", "p", "o">>

\* str.endswith
EndsWith(s, suffix) ==
    /\ Len(suffix) <= Len(s)
    /\ SubSeq(s, Len(s) - Len(suffix) + 1, Len(s)) = suffix

\* name.rsplit(sep, 1)[-1] of a name that holds sep
RECURSIVE rsplit_last(_, _)
rsplit_last(name, sep) ==
    IF name = <<>> \/ name[Len(name)] = sep THEN <<>>
    ELSE Append(rsplit_last(SubSeq(name, 1, Len(name) - 1), sep),
                name[Len(name)])

\* lines 97-102: the part after the last '/', or after the last ':'
last_part(name) ==
    IF \E k \in 1..Len(name) : name[k] = SLASH THEN rsplit_last(name, SLASH)
    ELSE IF \E k \in 1..Len(name) : name[k] = ":" THEN rsplit_last(name, ":")
    ELSE name

\* lines 94-96: one '.git' is cut from the end
cut_dot_git(name) ==
    IF EndsWith(name, DOT_GIT) THEN SubSeq(name, 1, Len(name) - 4) ELSE name

\* name or "public-repo"
or_public_repo(name) == IF name = <<>> THEN PUBLIC_REPO ELSE name

\* faulty variant: the trailing slashes are kept
_extract_repo_name_no_rstrip(url) ==
    or_public_repo(last_part(cut_dot_git(url)))

\* SyncConfig._extract_repo_name
_extract_repo_name(url) ==
    or_public_repo(last_part(cut_dot_git(rstrip_slash(url))))

\* SyncConfig.public_repo_path; public_repo_clone_path = NoPath stands for
\* None
public_repo_path(public_repo_clone_path, public_repo_url) ==
    IF public_repo_clone_path # NoPath THEN public_repo_clone_path
    ELSE DEFAULT_CLONE_DIR \o <<SLASH>> \o _extract_repo_name(public_repo_url)

\* trailing slashes of a URL
MaxSlashes == 2

UrlHosts ==
    {<<>>, <<"h", ":">>, <<"s", ":", SLASH, SLASH, "h", SLASH>>,
     <<"g", "@", "h", ":", "o", SLASH>>}

UrlNames == {<<>>, <<"r">>, <<"r", ".", "x">>}

UrlSuffixes == {<<>>, DOT_GIT, DOT_GIT \o DOT_GIT, <<SLASH>> \o DOT_GIT}

InitUrl ==
    /\ objects = <<>>
    /\ repos = [r \in {PRIVATE, PUBLIC} |-> CleanRepo(0, EmptyTree)]
    /\ origin = 0
    /\ config = Config(<<Project(<<"p">>, <<"q">>)>>, FALSE)
    /\ pc = "idle"
    /\ run = NoRun
    /\ prev = NoSummary
    /\ events = 0
    /\ \E host \in UrlHosts, name \in UrlNames, suffix \in UrlSuffixes,
          slashes \in 0..MaxSlashes,
          public_repo_clone_path \in {NoPath, <<"c">>} :
          probe = [fn |-> "public_repo_path",
                   public_repo_clone_path |-> public_repo_clone_path,
                   url |-> host \o name \o suffix
                              \o [k \in 1..slashes |-> SLASH],
                   returned |-> FALSE, path |-> <<>>]

\* config.public_repo_path is read
CallPublicRepoPath ==
    /\ probe.fn = "public_repo_path"
    /\ ~probe.returned
    /\ probe' = [probe EXCEPT
                    !.returned = TRUE,
                    !.path = public_repo_path(probe.public_repo_clone_path,
                                              probe.url)]
    /\ UNCHANGED <<objects, repos, origin, config, pc, run, prev, events>>

SpecUrl == InitUrl /\ [][CallPublicRepoPath]_vars

\* ------------------------------------------------------------------------
\* Mappings that are switched off: private-to-public runs of sync() and
\* sync_full() with the directory mappings p -> q and q -> p, in either
\* order, each of them enabled or not
\* ------------------------------------------------------------------------
EnabledEdits ==
    {<<P_A, 0>>, <<P_A, 2>>, <<Q_A, 0>>, <<Q_A, 2>>}

\* both repositories hold the file a in both directories
BothDirs == TreeWrite(TreeWrite(EmptyTree, P_A, 1), Q_A, 1)

InitEnabled ==
    \E swap \in BOOLEAN, p_enabled \in BOOLEAN, q_enabled \in BOOLEAN :
        /\ InitRepos(BothDirs, BothDirs, <<TXT>>)
        /\ LET p == [Project(<<"p">>, <<"q">>) EXCEPT !.enabled = p_enabled]
               q == [Project(<<"q">>, <<"p">>) EXCEPT !.enabled = q_enabled]
           IN config = Config(IF swap THEN <<q, p>> ELSE <<p, q>>, FALSE)

NextEnabled ==
    \/ \E edit \in EnabledEdits :
          DevCommit(PRIVATE, edit[1], edit[2], <<TXT>>, DEV)
    \/ \E dry_run \in BOOLEAN : BeginSync(P2P, dry_run)
    \/ SyncStep
    \/ Finish
    \/ \E dry_run \in BOOLEAN : SyncFull(P2P, dry_run)

SpecEnabled == InitEnabled /\ [][NextEnabled]_vars

\* ------------------------------------------------------------------------
\* Renames: private-to-public runs of the mapping p -> q over commits that
\* edit and rename the files a and b; the two repositories start in sync,
\* the public commit being the replica of the private one
\* ------------------------------------------------------------------------
RenameEdits == {<<P_A, 0>>, <<P_A, 2>>, <<P_B, 1>>, <<P_B, 2>>}

RenameMoves == {<<P_A, P_B>>, <<P_B, P_A>>}

InitRename ==
    /\ objects = <<RootCommit(PRIVATE, TreeWrite(EmptyTree, P_A, 1), <<TXT>>),
                   RootCommit(PUBLIC, TreeWrite(EmptyTree, Q_A, 1),
                              SyncMessage(1))>>
    /\ repos = [r \in {PRIVATE, PUBLIC} |->
                   IF r = PRIVATE THEN CleanRepo(1, TreeWrite(EmptyTree, P_A, 1))
                   ELSE CleanRepo(2, TreeWrite(EmptyTree, Q_A, 1))]
    /\ origin = 2
    /\ pc = "idle"
    /\ run = NoRun
    /\ prev = NoSummary
    /\ events = 0
    /\ probe = NoProbe
    /\ \E auto_push \in BOOLEAN :
          config = Config(<<Project(<<"p">>, <<"q">>)>>, auto_push)

NextRename ==
    \/ \E edit \in RenameEdits :
          DevCommit(PRIVATE, edit[1], edit[2], <<TXT>>, DEV)
    \/ \E move \in RenameMoves : DevRename(move[1], move[2], <<TXT>>, DEV)
    \/ \E dry_run \in BOOLEAN : BeginSync(P2P, dry_run)
    \/ SyncStep
    \/ Finish

SpecRename == InitRename /\ [][NextRename]_vars

\* ------------------------------------------------------------------------
\* Alternating directions: runs of sync() in both directions over the
\* mapping p -> p, with auto_push, while developers commit to the private
\* repository
\* ------------------------------------------------------------------------
PingEdits == {<<P_A, 1>>, <<P_A, 2>>, <<P_B, 1>>}

InitPing ==
    /\ InitRepos(EmptyTree, EmptyTree, <<TXT>>)
    /\ config = Config(<<Project(<<"p">>, NoPath)>>, TRUE)

NextPing ==
    \/ \E edit \in PingEdits :
          DevCommit(PRIVATE, edit[1], edit[2], <<TXT>>, DEV)
    \/ \E direction \in {P2P, PUB2PRIV} : BeginSync(direction, FALSE)
    \/ SyncStep
    \/ Finish

SpecPing == InitPing /\ [][NextPing]_vars

\* ------------------------------------------------------------------------
\* Commits with several changes: private-to-public runs of the mapping
\* p -> q over commits that change one or two files, inside the mapping,
\* excluded by the patterns, or outside every mapping
\* ------------------------------------------------------------------------
CountEdits ==
    {<<P_A, 0>>, <<P_A, 1>>, <<P_A, 2>>, <<P_B, 0>>, <<P_B, 1>>,
     <<P_ENV, 1>>, <<Q_A, 1>>}

InitCount ==
    /\ InitRepos(EmptyTree, EmptyTree, <<TXT>>)
    /\ config = Config(<<Project(<<"p">>, <<"q">>)>>, FALSE)

NextCount ==
    \/ \E edit \in CountEdits :
          DevCommit(PRIVATE, edit[1], edit[2], <<TXT>>, DEV)
    \/ \E first \in CountEdits, second \in CountEdits :
          DevCommitTwo(first, second, <<TXT>>, DEV)
    \/ \E dry_run \in BOOLEAN : BeginSync(P2P, dry_run)
    \/ SyncStep
    \/ Finish

SpecCount == InitCount /\ [][NextCount]_vars

\* ------------------------------------------------------------------------
\* Root commits: private-to-public runs of the mapping p -> q where the
\* first commit of the private repository holds the file p/a
\* ------------------------------------------------------------------------
RootEdits == {<<P_A, 0>>, <<P_A, 2>>, <<P_B, 1>>, <<P_B, 0>>}

InitRoot ==
    /\ InitRepos(TreeWrite(EmptyTree, P_A, 1), EmptyTree, <<TXT>>)
    /\ \E auto_push \in BOOLEAN :
          config = Config(<<Project(<<"p">>, <<"q">>)>>, auto_push)

NextRoot ==
    \/ \E edit \in RootEdits :
          DevCommit(PRIVATE, edit[1], edit[2], <<TXT>>, DEV)
    \/ \E dry_run \in BOOLEAN : BeginSync(P2P, dry_run)
    \/ SyncStep
    \/ Finish

SpecRoot == InitRoot /\ [][NextRoot]_vars

TypeOK ==
    /\ \A h \in 1..Len(objects) : DOMAIN objects[h].tree \subseteq PathSet
    /\ \A r \in {PRIVATE, PUBLIC} :
          /\ DOMAIN repos[r].wt \subseteq PathSet
          /\ DOMAIN repos[r].index \subseteq PathSet
    /\ pc \in {"idle", "loop", "finish", "done"}

\* ------------------------------------------------------------------------
\* Properties
\* ------------------------------------------------------------------------
\* the commits reachable from h
History(h) == SeqSet(Chain(objects, h))

\* the current invocation is one of sync() that has not crashed
InRun == run.status \in {"running", "returned"}

\* the position of a source commit in pending_commits
PendingIndex(h) == CHOOSE k \in 1..Len(run.pending) : run.pending[k] = h

\* the invocation before the current one returned after replicating commits
\* and the source has not moved since
PrevReplicatedAll ==
    /\ prev.status = "returned"
    /\ prev.direction = run.direction
    /\ ~prev.dry_run
    /\ prev.success
    /\ prev.commits_synced > 0
    /\ prev.src_head = run.src_head

\* C1: of two sequential sync invocations in one direction, the first of
\* which replicated commits, with no new source commit in between, the second
\* returns commits_synced = 0, whatever the configuration
C1_SecondRunSyncsNothing ==
    (pc = "done" /\ run.status = "returned" /\ PrevReplicatedAll)
        => run.result.commits_synced = 0

\* the last source commit the current run replicated
LastReplicated ==
    CHOOSE h \in DOMAIN run.result.commit_mappings :
        \A g \in DOMAIN run.result.commit_mappings :
            PendingIndex(g) <= PendingIndex(h)

\* C2: after a sync() that replicated at least one commit,
\* get_last_synced_commit on the destination returns the hash of the last
\* source commit replicated in that run, for every source commit message
C2_ResumeHashIsLastReplicated ==
    (pc = "done" /\ run.status = "returned" /\ ~run.dry_run
        /\ run.result.commits_synced > 0)
        => get_last_synced_commit(objects, repos[DestOf(run.direction)],
                                  config.commit_prefix) = LastReplicated

\* the result of get_commits_since on the source for every resume hash h
\* that resolves there holds only commits of the branch that are not
\* reachable from h and touch a sync path
CommitsSinceIsSound(name, direction) ==
    LET paths == sync_paths(config, direction)
        branch == History(repos[name].head)
        touching == {c \in branch : TouchesPaths(objects, c, paths)}
    IN \A h \in 1..Len(objects) :
          Resolves(objects, name, h) =>
              LET since == get_commits_since(objects, name, repos[name], h, paths)
                  before == History(h)
              IN /\ SeqSet(since) \subseteq touching \ before
                 /\ (branch \subseteq before => since = <<>>)

\* C3: get_commits_since(h, paths) with a resume hash that resolves in the
\* source returns only commits of the current branch not reachable from h
\* that touch one of the paths: never h or a commit before it, and nothing
\* when no newer commit exists
C3_CommitsSinceAfterResumePoint == CommitsSinceIsSound(PRIVATE, P2P)

\* a run resumed from a hash that resolves in the source, with a newer
\* commit pending
C3_Witness ==
    /\ pc = "loop"
    /\ Resolves(objects, SourceOf(run.direction), run.last_synced)
    /\ run.pending # <<>>
    /\ run.last_synced \in History(run.src_head)

\* C4: sync() replicates pending commits oldest-first: of two source commits
\* X before Y that one run replicates, X precedes Y in the source history,
\* and the destination commit of X is an ancestor of the destination commit
\* of Y
C4_OldestFirst ==
    InRun =>
        /\ \A i, j \in 1..Len(run.pending) :
              i < j => run.pending[i] \in History(objects[run.pending[j]].parent)
        /\ ~run.dry_run =>
              \A x, y \in DOMAIN run.result.commit_mappings :
                  PendingIndex(x) < PendingIndex(y) =>
                      run.result.commit_mappings[x] \in
                          History(objects[run.result.commit_mappings[y]].parent)

\* a run replicated two commits
C4_Witness ==
    /\ InRun
    /\ ~run.dry_run
    /\ Cardinality(DOMAIN run.result.commit_mappings) >= 2

\* every destination commit the current run mapped is in the destination's
\* history
MappedCommitsKept ==
    \A h \in DOMAIN run.result.commit_mappings :
        run.result.commit_mappings[h] \in History(repos[DestOf(run.direction)].head)

\* after an exception the result holds one error and success is false, and
\* what was replicated before is kept
C5_AfterError ==
    (pc \in {"finish", "done"} /\ InRun /\ run.result.errors # <<>>)
        => /\ Len(run.result.errors) = 1
           /\ ~run.result.success
           /\ run.next <= Len(run.pending)
           /\ run.result.commits_synced
                  = Cardinality(DOMAIN run.result.commit_mappings)
           /\ ~run.dry_run => MappedCommitsKept

\* the step in which replication raises: the loop is left, nothing that was
\* recorded or committed is undone
C5_OnError ==
    (pc = "loop" /\ run'.result.errors # run.result.errors)
        => /\ run'.result.errors = Append(run.result.errors, run.pending[run.next])
           /\ ~run'.result.success
           /\ pc' = "finish"
           /\ run'.next = run.next
           /\ run'.result.commit_mappings = run.result.commit_mappings
           /\ run'.result.commits_synced = run.result.commits_synced
           /\ objects' = objects
           /\ repos'[DestOf(run.direction)].head = repos[DestOf(run.direction)].head

\* after the loop sync() returns its result: no further commit is processed
C5_OnReturn ==
    pc = "finish"
        => /\ pc' = "done"
           /\ run'.status = "returned"
           /\ run'.next = run.next
           /\ run'.result.errors = run.result.errors
           /\ run'.result.success = run.result.success
           /\ run'.result.commit_mappings = run.result.commit_mappings
           /\ objects' = objects

\* C5: when replication of a pending commit raises, sync() appends one
\* error, sets success to false, processes no later pending commit in that
\* run, keeps every destination commit and commit_mappings entry of the
\* earlier commits, and returns the result instead of raising
C5_FailFast ==
    /\ []C5_AfterError
    /\ [][C5_OnError /\ C5_OnReturn]_vars

\* a run that replicated a commit and then failed on a later one
C5_Witness ==
    /\ pc = "finish"
    /\ ~run.dry_run
    /\ run.result.errors # <<>>
    /\ run.result.commits_synced > 0

\* the invocation before the current one aborted fail-fast
PrevFailed ==
    /\ prev.status = "returned"
    /\ prev.direction = run.direction
    /\ ~prev.dry_run
    /\ prev.errors # <<>>

\* the source commit a destination commit names in its trailer
Trailer(c) == objects[c].message[Len(objects[c].message)]

\* C6: after a run that aborted fail-fast and any number of re-invocations,
\* no two commits of the destination history carry the synced_from trailer
\* of one source commit: what was replicated before the failure is not
\* replicated again
C6_NoRepeatedReplication ==
    (InRun /\ ~run.dry_run /\ PrevFailed)
        => /\ DOMAIN run.result.commit_mappings \cap prev.mapped = {}
           /\ \A a, b \in History(repos[DestOf(run.direction)].head) :
                 (/\ a # b
                  /\ Contains(objects[a].message, config.commit_prefix)
                  /\ Contains(objects[b].message, config.commit_prefix))
                     => Trailer(a) # Trailer(b)

\* the invocation before the current one was interrupted or failed
PrevInterrupted ==
    /\ prev.status \in {"returned", "crashed"}
    /\ prev.direction = run.direction
    /\ ~prev.dry_run
    /\ (prev.status = "crashed" \/ prev.errors # <<>>)

\* the files of the enabled projects that the filter lets through
Replicated(project, path) ==
    /\ StartsWith(path, project_prefix(project))
    /\ should_include_file(DropFirst(path, Len(project_prefix(project))),
                           project, config)

\* the destination's head holds what the source's head holds
DestinationMirrorsSource ==
    \A k \in 1..Len(config.projects), path \in PathSet :
        Replicated(config.projects[k], path) =>
            LET src == Tree(objects, repos[SourceOf(run.direction)].head)
                dst == Tree(objects, repos[DestOf(run.direction)].head)
                at == DestFilePath([kind |-> "project",
                                    mapping |-> config.projects[k],
                                    change |-> FileChange(path, "M")])
            IN /\ (path \in DOMAIN src) = (at \in DOMAIN dst)
               /\ path \in DOMAIN src /\ at \in DOMAIN dst => src[path] = dst[at]

\* C7: when replication of a commit was interrupted or failed after the
\* destination working tree was modified and before the destination commit,
\* the next run replicates the commit and the destination ends with the
\* content an uninterrupted run produces: a deletion is still committed
C7_RetryAfterInterruption ==
    (pc = "done" /\ run.status = "returned" /\ ~run.dry_run
        /\ run.result.success /\ PrevInterrupted)
        => DestinationMirrorsSource

\* C8: a dry-run sync() mutates nothing at the destination: while it
\* processes its pending commits and returns, the destination's working
\* tree, index and commit history stay as they were, and no push is
\* attempted
C8_DryRunMutatesNothing ==
    [][(run.dry_run /\ pc \in {"loop", "finish"} /\ pc' # "idle")
          => /\ repos'[DestOf(run.direction)] = repos[DestOf(run.direction)]
             /\ objects' = objects
             /\ origin' = origin
             /\ run'.push = "none"]_vars

\* the two lists of _sync_single_commit after its loops, for the commit the
\* loop of sync() is at
ListsAfter(items) ==
    ApplyItems(objects, run.pending[run.next],
               LoopState(repos[DestOf(run.direction)], <<>>, <<>>),
               items, Len(items), run.dry_run)

ListsAfterLoops ==
    ListsAfter(WorkItems(config,
                         files_changed(objects, repos, run.pending[run.next])))

NothingListed(st) == st.files_to_stage = <<>> /\ st.files_to_remove = <<>>

NoRelevantChange == pc = "loop" /\ NothingListed(ListsAfterLoops)

\* C9: for a pending commit with no path staged and no path removed no
\* destination commit is created, and sync() records no commit_mappings
\* entry, does not increment commits_synced or files_changed, records no
\* error, and continues with the next pending commit
C9_NoRelevantChangeIsSkipped ==
    [][NoRelevantChange
          => /\ objects' = objects
             /\ repos'[DestOf(run.direction)].head
                   = repos[DestOf(run.direction)].head
             /\ run'.result = run.result
             /\ run'.next = run.next + 1
             /\ pc' = IF run.next = Len(run.pending) THEN "finish" ELSE "loop"]_vars

\* a run that skipped a commit without relevant change and replicated a
\* later one
C9_Witness ==
    /\ InRun
    /\ ~run.dry_run
    /\ run.result.errors = <<>>
    /\ \E i, j \in 1..Len(run.pending) :
          /\ i < j
          /\ j < run.next
          /\ run.pending[i] \notin DOMAIN run.result.commit_mappings
          /\ run.pending[j] \in DOMAIN run.result.commit_mappings

\* C10: every destination commit created by a non-dry-run sync() has the
\* message '<commit_prefix> <original message>', a blank line and
\* 'synced_from: <source hash>', and commit_mappings maps each replicated
\* source hash to the destination commit with that hash in its trailer
C10_ProvenanceTrailer ==
    /\ \A c \in 1..Len(objects) :
          (objects[c].home = PUBLIC /\ objects[c].parent # 0) =>
              \E h \in 1..Len(objects) :
                  /\ objects[h].home = PRIVATE
                  /\ objects[c].message =
                        <<config.commit_prefix, SP>> \o strip(objects[h].message)
                            \o <<BLANK, SyncedFrom(h)>>
    /\ (InRun /\ ~run.dry_run) =>
          \A h \in DOMAIN run.result.commit_mappings :
              /\ run.result.commit_mappings[h] \in 1..Len(objects)
              /\ objects[run.result.commit_mappings[h]].home = PUBLIC
              /\ Trailer(run.result.commit_mappings[h]) = SyncedFrom(h)

\* a returned run replicated a commit whose message quotes a trailer
C10_Witness ==
    /\ pc = "done"
    /\ run.status = "returned"
    /\ ~run.dry_run
    /\ \E h \in DOMAIN run.result.commit_mappings :
          Contains(objects[h].message, BLANK)

\* the source commit a destination commit was made from
SourceOfReplica(c) == Trailer(c).h

\* C11: every destination commit created by sync() carries the author name,
\* author email and authored timestamp of its source commit, also when the
\* name or the email of the source author is empty; it never carries the
\* invoking user's identity or the current time
C11_AuthorshipPreserved ==
    \A c \in 1..Len(objects) :
        (objects[c].home = PUBLIC /\ objects[c].parent # 0) =>
            /\ objects[c].author = objects[SourceOfReplica(c)].author
            /\ objects[c].date.t = objects[SourceOfReplica(c)].date.t

\* C12: when git commit fails with 'nothing to commit', _sync_single_commit
\* returns None: sync() records no mapping and no error and goes on with the
\* next commit; any other failure of git commit propagates: one error is
\* recorded, success is false and the loop is left
C12_NothingToCommitOnly ==
    [][(pc = "loop" /\ pc' # "idle")
          => /\ run'.commit_error = GIT_CLEAN
                   => /\ run'.result = run.result
                      /\ run'.next = run.next + 1
             /\ run'.commit_error \notin {NO_ERROR, GIT_CLEAN}
                   => /\ run'.result.errors
                            = Append(run.result.errors, run.pending[run.next])
                      /\ ~run'.result.success
                      /\ pc' = "finish"]_vars

\* the step is the start of a sync() invocation: _init_repos and the
\* enumeration of the pending commits
IsBeginSync == pc \in {"idle", "done"} /\ pc' \in {"loop", "done"} /\ events' # events

\* the commits of a repository's history that sync() created
ReplicasIn(objs, rp, name) ==
    {c \in SeqSet(Chain(objs, rp[name].head)) :
        objs[c].home = name /\ Contains(objs[c].message, config.commit_prefix)}

\* C13: the destination commits a run created stay in the history of the
\* destination clone across later invocations, pushed or not: initialising
\* the repositories for the next run discards none of them
C13_UnpushedCommitsKept ==
    [][IsBeginSync
          => ReplicasIn(objects, repos, DestOf(run'.direction))
                \subseteq ReplicasIn(objects', repos', DestOf(run'.direction))]_vars

\* rel is the path, relative to the k-th directory mapping, of a change of
\* the commit the loop is at, and the patterns let it through
AllowedRel(k, rel) ==
    /\ rel # <<>>
    /\ \E c \in SeqSet(files_changed(objects, repos, run.pending[run.next])) :
          c.path = project_prefix(config.projects[k]) \o rel
    /\ should_include_file(rel, config.projects[k], config)

\* the files of a tree that the step wrote: new, or with new content
Written(before, after) ==
    {d \in DOMAIN after : d \notin DOMAIN before \/ after[d] # before[d]}

IsAllowedDest(d) ==
    \E k \in 1..Len(config.projects) :
        /\ config.projects[k].enabled
        /\ StartsWith(d, resolved_public_path(config.projects[k]) \o <<SLASH>>)
        /\ AllowedRel(k, DropFirst(d, Len(resolved_public_path(config.projects[k])) + 1))

MatchesExclude(name, pattern) ==
    \/ fnmatch(name, pattern)
    \/ fnmatch(name, rstrip_slash(pattern))

\* the path, or one of its segments, matches a global exclude pattern or an
\* exclude pattern of the mapping
IsExcluded(path, project, cfg) ==
    \E pattern \in SeqSet(cfg.global_exclude_patterns)
                      \cup SeqSet(project.exclude_patterns) :
        \E name \in {path} \cup SeqSet(PathParts(path)) :
            MatchesExclude(name, pattern)

MatchesInclude(path, project) ==
    \E pattern \in SeqSet(project.include_patterns) : fnmatch(path, pattern)

ShouldIncludeReturned == probe.fn = "should_include_file" /\ probe.returned

FilterCommitFilesReturned == probe.fn = "filter_commit_files" /\ probe.returned

\* the mapping's source path, a directory
SourcePath(project) == rstrip_slash(project.private_path)

\* the change is under the source path and the patterns let its relative
\* path through
IsRelevant(change, project, cfg) ==
    /\ StartsWith(change.path, Append(SourcePath(project), SLASH))
    /\ should_include_file(DropFirst(change.path, Len(SourcePath(project)) + 1),
                           project, cfg)

\* C17: filter_commit_files returns, in the order of the commit, exactly the
\* changes whose path starts with the source path followed by '/' and whose
\* relative path passes should_include_file; a change in a sibling directory
\* whose name begins with the source path is never returned
C17_PrefixFilter ==
    FilterCommitFilesReturned
        => /\ probe.relevant
                = SelectSeq(probe.changes,
                            LAMBDA c : c \in SeqSet(probe.relevant))
           /\ \A c \in SeqSet(probe.changes) :
                 c \in SeqSet(probe.relevant)
                     <=> IsRelevant(c, probe.project, config)
           /\ \A c \in SeqSet(probe.relevant) :
                 ~StartsWith(c.path, <<"p", "2">>)

\* a commit that changes a file of the mapping and a file of the sibling
\* directory p2
C17_Witness ==
    /\ FilterCommitFilesReturned
    /\ probe.relevant # <<>>
    /\ \E c \in SeqSet(probe.changes) : StartsWith(c.path, <<"p", "2", SLASH>>)

\* the step replicates the commit the loop is at, for real and without an
\* exception
ReplicationStep ==
    /\ pc = "loop"
    /\ pc' # "idle"
    /\ ~run.dry_run
    /\ run'.result.errors = run.result.errors

\* the change of the commit the loop is at to the file at path, if any
ChangesOf(path) ==
    {c \in SeqSet(files_changed(objects, repos, run.pending[run.next])) :
        c.path = path}

\* what the step does to the destination file of the file mapping f
FileMappingReplicated(f, dest) ==
    IF ChangesOf(f.private_path) = {}
    THEN /\ (dest \in DOMAIN repos'[PUBLIC].wt) = (dest \in DOMAIN repos[PUBLIC].wt)
         /\ dest \in DOMAIN repos[PUBLIC].wt
               => repos'[PUBLIC].wt[dest] = repos[PUBLIC].wt[dest]
    ELSE IF \E c \in ChangesOf(f.private_path) : c.change_type = "D"
    THEN /\ dest \notin DOMAIN repos'[PUBLIC].wt
         /\ dest \notin DOMAIN repos'[PUBLIC].index
    ELSE /\ dest \in DOMAIN repos'[PUBLIC].wt
         /\ dest \in DOMAIN repos'[PUBLIC].index
         /\ repos'[PUBLIC].wt[dest]
               = objects[run.pending[run.next]].tree[f.private_path]
         /\ repos'[PUBLIC].index[dest]
               = objects[run.pending[run.next]].tree[f.private_path]

\* C18: for an enabled single-file mapping a change of a pending commit is
\* replicated iff its path equals the source path of the mapping; no global
\* or project pattern is applied to it, and the file is written at, or
\* removed from, the resolved destination path of the mapping
C18_SingleFileMapping ==
    [][ReplicationStep
          => \A k \in 1..Len(config.files) :
                config.files[k].enabled
                    => FileMappingReplicated(
                           config.files[k],
                           resolved_public_path(config.files[k]))]_vars

\* the mapped file p/.env, which the global patterns exclude, was committed
\* at the destination and later removed again
C18_Witness ==
    /\ pc = "done"
    /\ ~run.dry_run
    /\ run.result.commits_synced > 0
    /\ config.files # <<>>
    /\ resolved_public_path(config.files[1])
          \notin DOMAIN Tree(objects, repos[PUBLIC].head)
    /\ \E c \in History(repos[PUBLIC].head) :
          resolved_public_path(config.files[1]) \in DOMAIN objects[c].tree

\* <public_path>/ of a directory mapping
PublicPrefix(project) == Append(rstrip_slash(resolved_public_path(project)), SLASH)

\* the file at dest in the private working tree after the step is what the
\* change made of the public file
MirroredToPrivate(change, dest) ==
    IF change.change_type = "D"
    THEN dest \notin DOMAIN repos'[PRIVATE].wt
    ELSE /\ dest \in DOMAIN repos'[PRIVATE].wt
         /\ repos'[PRIVATE].wt[dest]
               = objects[run.pending[run.next]].tree[change.path]

\* C19: in a public-to-private sync the paths are translated the other way
\* round: a change of the public repository to <public_path>/rel that the
\* patterns let through is relevant and is replicated to <private_path>/rel
\* in the private repository, also when public_path differs from
\* private_path
C19_ReverseTranslation ==
    [][(ReplicationStep /\ run.direction = PUB2PRIV)
          => \A k \in 1..Len(config.projects) :
                \A c \in SeqSet(files_changed(objects, repos,
                                               run.pending[run.next])) :
                    (/\ config.projects[k].enabled
                     /\ StartsWith(c.path, PublicPrefix(config.projects[k]))
                     /\ should_include_file(
                            DropFirst(c.path, Len(PublicPrefix(config.projects[k]))),
                            config.projects[k], config))
                        => MirroredToPrivate(
                               c,
                               project_prefix(config.projects[k])
                                   \o DropFirst(c.path,
                                                Len(PublicPrefix(config.projects[k]))))]_vars

\* the changes of the commit the loop is at that are relevant to a mapping
RelevantItems ==
    WorkItems(config, files_changed(objects, repos, run.pending[run.next]))

\* the only relevant change of the commit the loop is at is a deletion
OnlyDeletion ==
    /\ pc = "loop"
    /\ Len(RelevantItems) = 1
    /\ RelevantItems[1].change.change_type = "D"

\* the file was never at the destination: not in its working tree and in no
\* commit of its history
NeverPresent(dest, name) ==
    /\ dest \notin DOMAIN repos[name].wt
    /\ \A c \in History(repos[name].head) : dest \notin DOMAIN objects[c].tree

\* after the step the file is in neither the working tree nor the committed
\* tree of the destination, and no commit was made for a file that never was
\* there
DeletionReplicated(dest, name) ==
    /\ dest \notin DOMAIN repos'[name].wt
    /\ dest \notin DOMAIN Tree(objects', repos'[name].head)
    /\ NeverPresent(dest, name)
          => /\ objects' = objects
             /\ repos'[name].head = repos[name].head
             /\ run'.result.commit_mappings = run.result.commit_mappings

\* C20: for a pending commit whose only relevant change is the deletion of
\* a file F, after replication F is absent from the destination, working tree
\* and committed tree; if F was never present at the destination no
\* destination commit is created and no mapping is recorded
C20_DeletionReplicated ==
    [][(ReplicationStep /\ OnlyDeletion)
          => DeletionReplicated(DestFilePath(RelevantItems[1]),
                                DestOf(run.direction))]_vars

\* the destination commit the step creates
NewCommit == objects'[Len(objects')]

\* the changes of the commit the loop is at whose file is written and staged
StagedItems ==
    {item \in SeqSet(WorkItems(config, files_changed(objects, repos,
                                                     run.pending[run.next]))) :
        /\ item.change.change_type # "D"
        /\ item.change.path \in DOMAIN objects[run.pending[run.next]].tree}

\* C21: for every path staged while a source commit is replicated, the
\* content committed at the destination is the file's content as of that
\* commit in the source history, not the content of the source working tree
\* or of a later commit
C21_ContentAsOfCommit ==
    [][ReplicationStep /\ Len(objects') > Len(objects)
          => \A item \in StagedItems :
                /\ DestFilePath(item) \in DOMAIN NewCommit.tree
                /\ NewCommit.tree[DestFilePath(item)]
                      = objects[run.pending[run.next]].tree[item.change.path]]_vars

\* two pending commits modified p/a; the replica of the first one holds the
\* content of the first one while the source working tree holds the second
C21_Witness ==
    /\ InRun
    /\ ~run.dry_run
    /\ Len(run.pending) >= 2
    /\ \E h \in DOMAIN run.result.commit_mappings :
          /\ P_A \in DOMAIN objects[h].tree
          /\ P_A \in DOMAIN repos[PRIVATE].wt
          /\ repos[PRIVATE].wt[P_A] # objects[h].tree[P_A]
          /\ Q_A \in DOMAIN objects[run.result.commit_mappings[h]].tree
          /\ objects[run.result.commit_mappings[h]].tree[Q_A]
                = objects[h].tree[P_A]

\* the commits the scan may look at: the LOOKBACK newest of the branch
ScanWindow ==
    LET all == Chain(objects, repos[PUBLIC].head)
    IN SubSeq(all, 1, IF Len(all) < LOOKBACK THEN Len(all) ELSE LOOKBACK)

\* the hashes the synced_from trailers of a message name
TrailersOf(m) == {m[k].h : k \in {j \in 1..Len(m) : m[j].k = "sf"}}

\* the message holds the sync prefix and a synced_from trailer
IsSyncPoint(c) ==
    /\ \E k \in 1..Len(objects[c].message) :
          objects[c].message[k] = config.commit_prefix
    /\ TrailersOf(objects[c].message) # {}

\* C22: get_last_synced_commit looks at the 100 newest commits of the
\* current branch at most and returns the hash from the newest of them that
\* holds both the sync prefix and a synced_from trailer; it returns None
\* when none of them does, even if an older sync commit exists
C22_BoundedNewestFirstScan ==
    probe.fn = "get_last_synced_commit" /\ probe.returned
        => LET points == {k \in 1..Len(ScanWindow) : IsSyncPoint(ScanWindow[k])}
           IN IF points = {}
              THEN probe.hash = 0
              ELSE \E k \in points :
                      /\ \A j \in points : k <= j
                      /\ probe.hash \in TrailersOf(objects[ScanWindow[k]].message)

\* None was returned for a history whose only sync commits are older than
\* the 100 newest commits
C22_Witness ==
    /\ probe.fn = "get_last_synced_commit"
    /\ probe.returned
    /\ probe.hash = 0
    /\ \E c \in 1..Len(objects) : IsSyncPoint(c)

\* the sync commit found was the 100th newest commit, under 99 commits that
\* hold the prefix or a trailer but not both
C22_WitnessEdge ==
    /\ probe.fn = "get_last_synced_commit"
    /\ probe.returned
    /\ probe.hash # 0
    /\ Len(ScanWindow) = LOOKBACK
    /\ IsSyncPoint(ScanWindow[LOOKBACK])
    /\ \A k \in 1..(LOOKBACK - 1) : ~IsSyncPoint(ScanWindow[k])

\* the value of the trailer is a 40-character lowercase hex string
IsFortyLowerHex(value) ==
    /\ Len(value) = 40
    /\ \A k \in 1..Len(value) : value[k] \in LowerHex

\* C23: a commit is recognised as a sync point only if its message holds
\* the configured prefix and a 'synced_from:' trailer whose value is a
\* 40-character lowercase hex string; a value that is uppercase, shorter or
\* longer than 40 hex characters is not recognised
C23_OnlyFortyLowerHexRecognised ==
    probe.fn = "sync_point" /\ probe.returned /\ probe.hash # <<>>
        => /\ is_in(PREFIX_TEXT, probe.head)
           /\ probe.key = SYNCED_FROM
           /\ IsFortyLowerHex(probe.value)

\* what holds instead: the value starts with 40 lowercase hex characters,
\* and these are the hash returned
C23_FortyLowerHexStart ==
    probe.fn = "sync_point" /\ probe.returned /\ probe.hash # <<>>
        => /\ is_in(PREFIX_TEXT, probe.head)
           /\ probe.key = SYNCED_FROM
           /\ Len(probe.value) >= 40
           /\ IsFortyLowerHex(SubSeq(probe.value, 1, 40))
           /\ probe.hash = SubSeq(probe.value, 1, 40)

\* the resume hash of the run names no commit of the source repository
ResumeHashUnresolved ==
    /\ InRun
    /\ run.last_synced # 0
    /\ ~(/\ run.last_synced \in 1..Len(objects)
          /\ objects[run.last_synced].home = SourceOf(run.direction))

\* C24: when the resume hash cannot be resolved in the source repository,
\* get_commits_since neither raises nor returns an empty list: it returns
\* every commit of the branch that touches the given paths, oldest first
C24_UnresolvedResumeHashFallsBack ==
    ResumeHashUnresolved
        => /\ SeqSet(run.pending)
                 = {h \in History(run.src_head) :
                       TouchesPaths(objects, h, sync_paths(config, run.direction))}
           /\ \A i, j \in 1..Len(run.pending) :
                 i < j => run.pending[j] \notin History(run.pending[i])

\* a run whose resume hash did not resolve enumerated two commits or more
C24_Witness ==
    /\ ResumeHashUnresolved
    /\ Len(run.pending) >= 2

\* the step is the push of the run, and the push fails
PushFails ==
    /\ pc = "finish"
    /\ run.push = "none"
    /\ run'.push \in {"raised", "rejected"}

\* C25: a failing push at the end of sync() appends exactly one warning and
\* leaves success, errors, commits_synced and commit_mappings unchanged; the
\* destination commits created in the run remain in the local history
C25_FailingPushIsOneWarning ==
    [][PushFails
          => /\ Len(run'.result.warnings) = Len(run.result.warnings) + 1
             /\ run'.result.success = run.result.success
             /\ run'.result.errors = run.result.errors
             /\ run'.result.commits_synced = run.result.commits_synced
             /\ run'.result.commit_mappings = run.result.commit_mappings
             /\ objects' = objects
             /\ repos' = repos]_vars

\* what holds instead: one warning when the push raises, none when the
\* remote rejects the update; the result and the local commits stay
C25_FailingPushKeepsResult ==
    [][PushFails
          => /\ Len(run'.result.warnings)
                   = Len(run.result.warnings)
                       + (IF run'.push = "raised" THEN 1 ELSE 0)
             /\ run'.result.success = run.result.success
             /\ run'.result.errors = run.result.errors
             /\ run'.result.commits_synced = run.result.commits_synced
             /\ run'.result.commit_mappings = run.result.commit_mappings
             /\ objects' = objects
             /\ repos' = repos]_vars

\* C26: sync() attempts a push exactly when the run is not a dry run,
\* auto_push is set and at least one commit was replicated, also after a
\* fail-fast abort that followed a successful commit; it attempts one push
\* at most, after all commit processing has ended, and to the remote and
\* branch configured for the destination of the direction
C26_PushExactlyWhenConfigured ==
    InRun
        => /\ pc \in {"loop", "finish"} => run.push = "none"
           /\ run.status = "returned"
                 => (run.push # "none"
                        <=> /\ ~run.dry_run
                            /\ config.auto_push
                            /\ run.result.commits_synced > 0)
           /\ run.push # "none"
                 => run.pushed_to
                       = IF run.direction = P2P
                         THEN <<config.public_remote, config.public_branch>>
                         ELSE <<config.private_remote, config.private_branch>>

\* a push was attempted by a run that aborted after it replicated a commit
C26_Witness ==
    /\ run.status = "returned"
    /\ run.push # "none"
    /\ ~run.result.success
    /\ run.result.commits_synced > 0

\* the step is a full sync that is not a dry run
FullSyncStep == run'.status = "full" /\ ~run'.dry_run /\ events' = events + 1

\* the step creates one commit, which carries synced_from: <source HEAD>
OneFullSyncCommit ==
    /\ Len(objects') = Len(objects) + 1
    /\ repos'[PUBLIC].head = Len(objects')
    /\ NewCommit.home = PUBLIC
    /\ NewCommit.message[Len(NewCommit.message)]
          = SyncedFrom(repos[PRIVATE].head)

\* C27: a full sync that is not a dry run produces exactly one destination
\* commit, and the message of that commit carries synced_from: <hash of the
\* source HEAD at the time of the run>, whatever the source and the
\* destination hold (identical content, no file that passes the filter)
C27_FullSyncOneCommit ==
    [][FullSyncStep => OneFullSyncCommit]_vars

\* a file the full sync copies is new to the destination branch or differs
\* from it: p/a against q/a, and p/.env against q/.env when it is mapped
FullSyncChanges ==
    \/ /\ P_A \in DOMAIN repos[PRIVATE].wt
       /\ \/ Q_A \notin DOMAIN Tree(objects, origin)
          \/ Tree(objects, origin)[Q_A] # repos[PRIVATE].wt[P_A]
    \/ /\ config.files # <<>>
       /\ P_ENV \in DOMAIN repos[PRIVATE].wt
       /\ \/ Q_ENV \notin DOMAIN Tree(objects, origin)
          \/ Tree(objects, origin)[Q_ENV] # repos[PRIVATE].wt[P_ENV]

\* what holds instead: one commit when a copied file is new or differs,
\* no commit otherwise
C27_FullSyncOneCommitAtMost ==
    [][FullSyncStep
          => IF FullSyncChanges THEN OneFullSyncCommit
             ELSE objects' = objects /\ run'.result.commits_synced = 0]_vars

\* the step is a sync() invocation that finds no pending commit
NoPendingCommit == IsBeginSync /\ run'.pending = <<>>

\* the result of a run that did nothing
IsEmptyResult(result) ==
    /\ result.success
    /\ result.commits_synced = 0
    /\ result.files_changed = 0
    /\ result.errors = <<>>
    /\ result.warnings = <<>>
    /\ DOMAIN result.commit_mappings = {}

\* C28: when the source has no pending commit, sync() returns success with
\* commits_synced = 0, files_changed = 0 and empty errors, warnings and
\* commit_mappings, creates no destination commit, attempts no push and
\* leaves the destination tree as it was; a repeated call gives the same
\* result
C28_NoPendingCommitIsNoOp ==
    /\ [][NoPendingCommit
             => /\ run'.status = "returned"
                /\ IsEmptyResult(run'.result)
                /\ objects' = objects
                /\ run'.push = "none"
                /\ origin' = origin
                /\ repos'[DestOf(run'.direction)] = repos[DestOf(run'.direction)]]_vars
    /\ [][(/\ IsBeginSync
            /\ run.status = "returned"
            /\ run.pending = <<>>
            /\ run'.direction = run.direction)
             => /\ run'.pending = <<>>
                /\ run'.result = run.result
                /\ repos' = repos]_vars

\* a run found nothing pending, as the run before it did, in a destination
\* that holds replicas of earlier runs
C28_Witness ==
    /\ pc = "done"
    /\ run.status = "returned"
    /\ run.pending = <<>>
    /\ prev.status = "returned"
    /\ prev.commits_synced = 0
    /\ prev.src_head = run.src_head
    /\ repos[PUBLIC].head > 2

\* clone_repo returned from a call on an existing path
CloneRepoReturned ==
    probe.fn = "clone_repo" /\ probe.returned /\ probe.at.exists

\* a git command that clone_repo runs on the existing repository fails
GitCommandFails ==
    /\ probe.at.valid
    /\ probe.at.origin_urls # NoRemote
    /\ \/ probe.fault = "urls"
       \/ probe.url \in probe.at.origin_urls /\ probe.fault = "fetch"
       \/ /\ probe.url \in probe.at.origin_urls
          /\ probe.fault = "reset"
          /\ probe.branch # ""

\* C29: clone_repo on an existing path removes the directory and clones
\* afresh when force_reclone is set, when the path is no valid repository,
\* when its remote 'origin' is missing or has not the requested URL, or when
\* a git command on it fails; when origin matches and the git commands
\* succeed it never removes the directory and returns the existing clone
C29_RecloneOrKeep ==
    CloneRepoReturned
        => IF \/ probe.force_reclone
              \/ ~probe.at.valid
              \/ probe.at.origin_urls = NoRemote
              \/ probe.url \notin probe.at.origin_urls
              \/ GitCommandFails
           THEN probe.steps.rmtree /\ probe.steps.clone_from
           ELSE ~probe.steps.rmtree /\ ~probe.steps.clone_from

\* a valid clone of another URL was removed and cloned afresh
C29_Witness ==
    /\ CloneRepoReturned
    /\ ~probe.force_reclone
    /\ probe.at.valid
    /\ probe.at.origin_urls # NoRemote
    /\ probe.url \notin probe.at.origin_urls
    /\ probe.steps.rmtree
    /\ probe.steps.clone_from

\* a clone with the matching remote was fetched, reset and kept
C29_WitnessKept ==
    /\ CloneRepoReturned
    /\ probe.steps.fetched
    /\ probe.steps.reset
    /\ ~probe.steps.rmtree

\* the characters i+1..j of a URL
Part(url, i, j) == SubSeq(url, i + 1, j)

HasChar(text, c) == \E n \in 1..Len(text) : text[n] = c

\* url = Part(0, i) Part(i, j) Part(j, k) Part(k, end): all the trailing
\* '/', before them one '.git' if there is one, before it the last
\* component: what follows the last '/', or the last ':' when there is no
\* '/', or everything when there is neither
IsLastComponent(url, i, j, k) ==
    /\ \A n \in (k + 1)..Len(url) : url[n] = SLASH
    /\ k > 0 => url[k] # SLASH
    /\ IF EndsWith(Part(url, 0, k), DOT_GIT) THEN j = k - 4 ELSE j = k
    /\ ~HasChar(Part(url, i, j), SLASH)
    /\ \/ i > 0 /\ url[i] = SLASH
       \/ /\ ~HasChar(Part(url, 0, j), SLASH)
          /\ \/ i > 0 /\ url[i] = ":" /\ ~HasChar(Part(url, i, j), ":")
             \/ i = 0 /\ ~HasChar(Part(url, 0, j), ":")

\* C30: public_repo_path is public_repo_clone_path when that is set;
\* otherwise it is DEFAULT_CLONE_DIR joined with the last component of the
\* URL after '/' (after ':' when the URL has no '/'), trailing '/' and one
\* trailing '.git' removed, or with 'public-repo' when that name is empty;
\* it depends on the URL only
C30_PublicRepoPath ==
    probe.fn = "public_repo_path" /\ probe.returned
        => IF probe.public_repo_clone_path # NoPath
           THEN probe.path = probe.public_repo_clone_path
           ELSE \E i, j, k \in 0..Len(probe.url) :
                   /\ i <= j /\ j <= k
                   /\ IsLastComponent(probe.url, i, j, k)
                   /\ probe.path
                         = DEFAULT_CLONE_DIR \o <<SLASH>>
                              \o (IF i = j THEN PUBLIC_REPO
                                  ELSE Part(probe.url, i, j))

\* the path was derived from a URL that ends with '.git' and slashes
C30_Witness ==
    /\ probe.fn = "public_repo_path"
    /\ probe.returned
    /\ probe.public_repo_clone_path = NoPath
    /\ probe.url = <<"g", "@", "h", ":", "o", SLASH, "r">> \o DOT_GIT
                       \o <<SLASH, SLASH>>
    /\ probe.path = DEFAULT_CLONE_DIR \o <<SLASH, "r">>

\* the URL has no name: 'public-repo' is used
C30_WitnessEmpty ==
    /\ probe.fn = "public_repo_path"
    /\ probe.returned
    /\ probe.public_repo_clone_path = NoPath
    /\ probe.path = DEFAULT_CLONE_DIR \o <<SLASH>> \o PUBLIC_REPO


\* the files of a tree below a directory
Below(tree, dir) ==
    [p \in {q \in DOMAIN tree : StartsWith(q, rstrip_slash(dir) \o <<SLASH>>)}
        |-> tree[p]]

\* the directory mappings that are switched off
DisabledProjects ==
    {config.projects[k] : k \in {n \in 1..Len(config.projects) :
                                    ~config.projects[n].enabled}}

\* result holds the enabled entries of projects, all of them, in their order
IsEnabledPart(result, projects) ==
    \E f \in [1..Len(result) -> 1..Len(projects)] :
        /\ \A i, j \in 1..Len(result) : i < j => f[i] < f[j]
        /\ \A i \in 1..Len(result) : result[i] = projects[f[i]]
        /\ \A k \in 1..Len(projects) :
              projects[k].enabled <=> \E i \in 1..Len(result) : f[i] = k

\* a commit changes a file below a directory of the source
ChangesBelow(h, dir) ==
    \E path \in PathSet :
        /\ StartsWith(path, rstrip_slash(dir) \o <<SLASH>>)
        /\ Differs(Tree(objects, objects[h].parent), objects[h].tree, path)

\* the paths of a mapping that is switched off are no sync paths, and when a
\* mapping is enabled every pending commit changes a file of an enabled one
EnumeratedByEnabledOnly ==
    /\ \A d \in DisabledProjects :
          \A k \in 1..Len(sync_paths(config, P2P)) :
              sync_paths(config, P2P)[k] # d.private_path
    /\ (InRun /\ DisabledProjects # SeqSet(config.projects))
          => \A k \in 1..Len(run.pending) :
                \E n \in 1..Len(config.projects) :
                    /\ config.projects[n].enabled
                    /\ ChangesBelow(run.pending[k],
                                    config.projects[n].private_path)

\* the destination directory of a mapping that is switched off is what it
\* was at the start, in the working tree, the index and every commit
DisabledDestinationKept ==
    \A d \in DisabledProjects :
        LET dir == resolved_public_path(d)
            kept == Below(objects[2].tree, dir)
        IN /\ Below(repos[PUBLIC].wt, dir) = kept
           /\ Below(repos[PUBLIC].index, dir) = kept
           /\ \A c \in History(repos[PUBLIC].head) :
                 Below(objects[c].tree, dir) = kept

\* C31: get_enabled_projects returns exactly the mappings with enabled set,
\* in configuration order, and a mapping that is not enabled never
\* contributes: its paths do not enumerate pending commits, and nothing
\* below its destination is written, staged or removed by sync() or
\* sync_full()
C31_DisabledMappingNeverContributes ==
    /\ IsEnabledPart(get_enabled_projects(config), config.projects)
    /\ EnumeratedByEnabledOnly
    /\ DisabledDestinationKept

\* the source changed a file of a mapping that is switched off
DisabledSourceChanged ==
    \E d \in DisabledProjects :
        Below(Tree(objects, repos[PRIVATE].head), d.private_path)
            # Below(objects[1].tree, d.private_path)

\* sync() replicated a commit of the enabled mapping while the source holds
\* a change of the mapping that is switched off
C31_Witness ==
    /\ pc = "done"
    /\ run.status = "returned"
    /\ ~run.dry_run
    /\ run.result.commits_synced > 0
    /\ DisabledSourceChanged

\* sync_full() made its commit while the source holds a change of the
\* mapping that is switched off
C31_WitnessFull ==
    /\ run.status = "full"
    /\ run.result.commits_synced = 1
    /\ DisabledSourceChanged


\* a full sync that was no dry run has just returned with its commit
FullSyncCommitted ==
    /\ run.status = "full"
    /\ ~run.dry_run
    /\ run.result.commits_synced = 1

\* the destination path of a source path of a directory mapping
MappedPath(project, path) ==
    resolved_public_path(project) \o <<SLASH>>
        \o DropFirst(path, Len(project_prefix(project)))

\* the file is in the source and the patterns of the mapping let it through
InFilteredSource(project, path) ==
    /\ path \in DOMAIN repos[SourceOf(run.direction)].wt
    /\ Replicated(project, path)

\* the committed destination directory of a mapping holds the filtered
\* files of the source and nothing else
FullSyncMirrors(project) ==
    \A path \in PathSet :
        StartsWith(path, project_prefix(project)) =>
            LET dst == Tree(objects, repos[DestOf(run.direction)].head)
            IN /\ (MappedPath(project, path) \in DOMAIN dst)
                     = InFilteredSource(project, path)
               /\ InFilteredSource(project, path)
                     => dst[MappedPath(project, path)]
                           = repos[SourceOf(run.direction)].wt[path]

\* C32: after a full sync that was no dry run and created a commit, the
\* committed destination tree under the destination path of every enabled
\* directory mapping holds exactly the filtered files of the source; a file
\* committed there before that the source no longer has is absent
C32_FullSyncReplacesSubtree ==
    FullSyncCommitted
        => \A k \in 1..Len(config.projects) :
              config.projects[k].enabled => FullSyncMirrors(config.projects[k])

\* the commit of a full sync holds every filtered file of the source with
\* the source's content; a file it holds beyond them was committed before
C32_FullSyncAddsSource ==
    FullSyncCommitted
        => \A k \in 1..Len(config.projects), path \in PathSet :
              (/\ config.projects[k].enabled
               /\ StartsWith(path, project_prefix(config.projects[k])))
                 => LET dst == Tree(objects, repos[DestOf(run.direction)].head)
                        old == Tree(objects,
                                    objects[repos[DestOf(run.direction)].head].parent)
                        at == MappedPath(config.projects[k], path)
                    IN IF InFilteredSource(config.projects[k], path)
                       THEN /\ at \in DOMAIN dst
                            /\ dst[at] = repos[SourceOf(run.direction)].wt[path]
                       ELSE at \in DOMAIN dst
                               => at \in DOMAIN old /\ dst[at] = old[at]


\* the renames of a source commit inside a directory mapping: both paths
\* are files of the mapping that its patterns let through
RenamesInside(h, project) ==
    {pair \in RenamePairs(Tree(objects, objects[h].parent), objects[h].tree) :
        Replicated(project, pair[1]) /\ Replicated(project, pair[2])}

\* the destination commit of h holds the content at the new path
RenameAddsNew(h, project, pair) ==
    LET dst == objects[run.result.commit_mappings[h]].tree
    IN /\ MappedPath(project, pair[2]) \in DOMAIN dst
       /\ dst[MappedPath(project, pair[2])] = objects[h].tree[pair[2]]

\* the destination commit of h does not hold the old path
RenameDeletesOld(h, project, pair) ==
    MappedPath(project, pair[1])
        \notin DOMAIN objects[run.result.commit_mappings[h]].tree

\* C33: a replicated commit that renames a file inside a directory mapping
\* is handled as delete-old plus add-new: in the destination commit the new
\* path holds the file's content and the old path does not exist
C33_RenameIsDeleteAndAdd ==
    (InRun /\ ~run.dry_run)
        => \A h \in DOMAIN run.result.commit_mappings :
              \A k \in 1..Len(config.projects) :
                  \A pair \in RenamesInside(h, config.projects[k]) :
                      /\ RenameAddsNew(h, config.projects[k], pair)
                      /\ RenameDeletesOld(h, config.projects[k], pair)

\* the new path of a replicated rename holds the file's content in the
\* destination commit
C33_RenameAddsNewPath ==
    (InRun /\ ~run.dry_run)
        => \A h \in DOMAIN run.result.commit_mappings :
              \A k \in 1..Len(config.projects) :
                  \A pair \in RenamesInside(h, config.projects[k]) :
                      RenameAddsNew(h, config.projects[k], pair)


\* sync() has returned its result
SyncReturned == pc = "done" /\ run.status = "returned"

\* C34: on every return of sync(), commits_synced is the number of entries
\* of commit_mappings, success is false exactly when errors is not empty,
\* errors holds at most one entry, and every key of commit_mappings is a
\* pending source commit that comes before the failing commit, if there is
\* one
C34_ResultIsConsistent ==
    SyncReturned
        => /\ run.result.commits_synced
                 = Cardinality(DOMAIN run.result.commit_mappings)
           /\ ~run.result.success <=> run.result.errors # <<>>
           /\ Len(run.result.errors) <= 1
           /\ \A h \in DOMAIN run.result.commit_mappings :
                 /\ \E k \in 1..Len(run.pending) : run.pending[k] = h
                 /\ run.result.errors # <<>>
                       => \E i, j \in 1..Len(run.pending) :
                             /\ i < j
                             /\ run.pending[i] = h
                             /\ run.pending[j] = run.result.errors[1]

\* sync() returned after it replicated a commit and failed on a later one
C34_Witness ==
    /\ SyncReturned
    /\ run.result.errors # <<>>
    /\ run.result.commit_mappings # NoMappings

\* sync() returned after it replicated two commits without an error
C34_WitnessSuccess ==
    /\ SyncReturned
    /\ run.result.success
    /\ run.result.commits_synced = 2


\* the invocation before the current one was a dry run of the same
\* direction that returned without an error, and the source has not moved
PrevWasDryRun ==
    /\ prev.status = "returned"
    /\ prev.dry_run
    /\ prev.direction = run.direction
    /\ prev.success
    /\ prev.src_head = run.src_head

\* a pending commit has a relevant change that adds or modifies a file
HasRelevantWrite(h) ==
    \E k \in 1..Len(WorkItems(config, files_changed(objects, repos, h))) :
        WorkItems(config, files_changed(objects, repos, h))[k].change.change_type
            # "D"

\* C35: a dry-run sync() counts as would-be-synced exactly the pending
\* commits a run that is no dry run replicates from the same state; every
\* pending commit with a relevant added or modified file is counted in
\* commits_synced
C35_DryRunCountsWhatARunReplicates ==
    /\ (SyncReturned /\ ~run.dry_run /\ run.result.success /\ PrevWasDryRun)
          => /\ prev.mapped = DOMAIN run.result.commit_mappings
             /\ prev.commits_synced = run.result.commits_synced
    /\ (SyncReturned /\ run.dry_run /\ run.result.success)
          => \A k \in 1..Len(run.pending) :
                HasRelevantWrite(run.pending[k])
                    => run.pending[k] \in DOMAIN run.result.commit_mappings

\* what a dry run counts, the run after it from the same state replicates
C35_DryRunCountsNoMore ==
    (SyncReturned /\ ~run.dry_run /\ run.result.success /\ PrevWasDryRun)
        => prev.mapped \subseteq DOMAIN run.result.commit_mappings

\* a dry run never counts a commit for a file it would write
C35_DryRunCountsDeletionsOnly ==
    (SyncReturned /\ run.dry_run)
        => \A h \in DOMAIN run.result.commit_mappings :
              \E k \in 1..Len(WorkItems(config, files_changed(objects, repos, h))) :
                  WorkItems(config, files_changed(objects, repos, h))[k]
                      .change.change_type = "D"


\* a commit the syncer created: its message carries the prefix and a
\* synced_from trailer
IsSyncCommit(h) ==
    /\ Contains(objects[h].message, config.commit_prefix)
    /\ re_search_synced_from(objects[h].message) # 0

\* a sync commit of the source whose trailer names a commit of the
\* destination: it was replicated from there
CameFromDestination(h) ==
    /\ IsSyncCommit(h)
    /\ \E k \in 1..Len(objects[h].message) :
          /\ objects[h].message[k].k = "sf"
          /\ Resolves(objects, DestOf(run.direction), objects[h].message[k].h)

\* no commit that came from the destination is replicated back to it
NoPingPong ==
    (InRun /\ ~run.dry_run)
        => \A h \in DOMAIN run.result.commit_mappings : ~CameFromDestination(h)

\* the resume hash of a run names a commit of its source
ResumeHashIsOfSource ==
    (InRun /\ run.last_synced # 0)
        => Resolves(objects, SourceOf(run.direction), run.last_synced)

\* C36: alternating directions does not ping-pong: a source commit that the
\* syncer created in the opposite direction is not replicated back to the
\* repository it came from, and the resume hash found in a destination
\* names a commit of the current source
C36_NoPingPong ==
    /\ NoPingPong
    /\ ResumeHashIsOfSource


\* the iteration of the loop of sync() counts the commit it is at
CommitCounted ==
    /\ pc = "loop"
    /\ run'.result.commits_synced = run.result.commits_synced + 1

\* the changes _sync_single_commit applies for the commit the loop is at:
\* the paths it stages and the paths it removes
ChangesApplied ==
    Len(ListsAfterLoops.files_to_stage) + Len(ListsAfterLoops.files_to_remove)

\* C37: files_changed of sync() is the number of file changes applied at
\* the destination, paths staged plus paths removed, over the replicated
\* commits: a change that is filtered out or outside every mapping is not
\* counted, and a commit without relevant change adds nothing
C37_FilesChangedCountsApplied ==
    [][/\ (CommitCounted /\ ~run.dry_run)
             => run'.result.files_changed
                   = run.result.files_changed + ChangesApplied
       /\ (pc = "loop" /\ ~CommitCounted)
             => run'.result.files_changed = run.result.files_changed]_vars

\* a commit that is not counted adds nothing to files_changed, and
\* files_changed is never less than what was applied
C37_FilesChangedAtLeastApplied ==
    [][/\ (CommitCounted /\ ~run.dry_run)
             => run'.result.files_changed
                   >= run.result.files_changed + ChangesApplied
       /\ (pc = "loop" /\ ~CommitCounted)
             => run'.result.files_changed = run.result.files_changed]_vars


\* every file of a tree as an Added change, in path order
AllAdded(tree) ==
    LET paths == SelectSeq(AllPaths, LAMBDA p : p \in DOMAIN tree)
    IN [k \in 1..Len(paths) |-> FileChange(paths[k], "A")]

\* the root commits of the source of the run
SourceRoots ==
    {h \in 1..Len(objects) :
        objects[h].parent = 0 /\ objects[h].home = SourceOf(run.direction)}

\* from_commit of a root commit lists the files of its tree as Added
RootCommitAllAdded ==
    \A h \in 1..Len(objects) :
        objects[h].parent = 0
            => files_changed(objects, repos, h) = AllAdded(objects[h].tree)

\* a run without an error replicated the pending root commits that hold a
\* file of the mapping
RootCommitReplicated ==
    (SyncReturned /\ ~run.dry_run /\ run.result.success)
        => \A h \in SourceRoots :
              (/\ \E k \in 1..Len(run.pending) : run.pending[k] = h
               /\ \E path \in DOMAIN objects[h].tree :
                     Replicated(config.projects[1], path))
                  => h \in DOMAIN run.result.commit_mappings

\* C38: from_commit of a root commit lists every file of the commit's tree
\* as an Added change, whatever the working tree holds, so a root commit
\* that adds a file under a mapping is replicated like any other commit
C38_RootCommitIsAllAdded ==
    /\ RootCommitAllAdded
    /\ RootCommitReplicated

\* a change from_commit lists for a root commit is never the addition of a
\* file of the commit's tree with unchanged content
C38_RootCommitIsDiffOfWorktree ==
    \A h \in 1..Len(objects) :
        objects[h].parent = 0
            => \A k \in 1..Len(files_changed(objects, repos, h)) :
                  LET change == files_changed(objects, repos, h)[k]
                  IN \/ change.path \notin DOMAIN objects[h].tree
                     \/ /\ change.change_type \in {"M", "D"}
                        /\ Differs(objects[h].tree,
                                   repos[objects[h].home].wt, change.path)

====
